---- MODULE Spec2Model ----
(***************************************************************************)
(* A model of josekit-rs: the JWS compact serialization codec (src/jws.rs), *)
(* the JWS header claim model (src/jws/jws_header.rs) and the RSASSA signer *)
(* and verifier (src/jws/alg/rsassa.rs).                                    *)
(*                                                                          *)
(* Text is modelled as the sequence of its bytes (ASCII codes), byte        *)
(* strings as sequences of 0..255.  Rust's 0-based byte offsets are the     *)
(* 1-based positions of the sequences here.  JSON values are records        *)
(* [t, s, a]: the type tag, the scalar rendered as a string, the elements   *)
(* of an array.  A Map<String, Value> is a function whose DOMAIN is the set *)
(* of the keys present.                                                     *)
(***************************************************************************)
EXTENDS Integers, Sequences, FiniteSets, TLC

VARIABLES
    header,     \* the Map<String, Value> the caller passes to the codec
    verifier,   \* the RsassaJwsVerifier: [algorithm, key, key_id]
    signer,     \* the RsassaJwsSigner: [algorithm, key]
    token,      \* the last compact token serialize_compact returned
    payload,    \* the payload that token was built from
    claims,     \* JwsHeader.claims of the header object (or Unconstructed)
    res         \* the outcome of the call in progress (NoCall between calls)

vars == <<header, verifier, signer, token, payload, claims, res>>

(***************************************************************************)
(* Bounds of the model.                                                    *)
(***************************************************************************)
\* the length in bytes of a signature (RSA_size of the key), scaled down
SigLen == 2
\* the largest number of '.' in a token handed to deserialize_compact
MaxDots == 3

(***************************************************************************)
(* serde_json::Value                                                       *)
(***************************************************************************)
None == [t |-> "none", s |-> "", a |-> <<>>]
Str(x) == [t |-> "string", s |-> x, a |-> <<>>]
Bool(b) == [t |-> "bool", s |-> IF b THEN "true" ELSE "false", a |-> <<>>]
Num(x) == [t |-> "number", s |-> x, a |-> <<>>]
Arr(xs) == [t |-> "array", s |-> "", a |-> xs]
Obj == [t |-> "object", s |-> "", a |-> <<>>]
\* an element of an array (a scalar Value)
El(type, x) == [t |-> type, s |-> x]

\* Map::get: the value under key, None when the key is absent
Get(map, key) == IF key \in DOMAIN map THEN map[key] ELSE None
\* Map::insert
Insert(map, key, val) ==
    [k \in DOMAIN map \cup {key} |-> IF k = key THEN val ELSE map[k]]
\* Map::remove
Remove(map, key) == [k \in DOMAIN map \ {key} |-> map[k]]
\* Map::new
EmptyMap == [k \in {} |-> None]

\* Value == &str (serde_json's PartialEq<str> for Value): a string Value
\* with that content
ValueEqStr(val, str) == val.t = "string" /\ val.s = str

(***************************************************************************)
(* Bytes of the strings used                                               *)
(***************************************************************************)
Dot == 46
Utf8(s) ==
    CASE s = "alg" -> <<97, 108, 103>>
      [] s = "b64" -> <<98, 54, 52>>
      [] s = "crit" -> <<99, 114, 105, 116>>
      [] s = "kid" -> <<107, 105, 100>>
      [] s = "RS256" -> <<82, 83, 50, 53, 54>>
      [] s = "RS384" -> <<82, 83, 51, 56, 52>>
      [] s = "RS512" -> <<82, 83, 53, 49, 50>>
      [] s = "k1" -> <<107, 49>>
      [] s = "k2" -> <<107, 50>>
      [] s = "exp" -> <<101, 120, 112>>
      [] s = "true" -> <<116, 114, 117, 101>>
      [] s = "false" -> <<102, 97, 108, 115, 101>>
      [] s = "1" -> <<49>>
      [] s = "x5t" -> <<120, 53, 116>>
      [] s = "AQID" -> <<65, 81, 73, 68>>
      [] s = "a+b" -> <<97, 43, 98>>
      [] s = "jwk" -> <<106, 119, 107>>
      [] s = "x5c" -> <<120, 53, 99>>
      [] s = "-w" -> <<45, 119>>
      [] s = "PBES2-HS256+A128KW" ->
            <<80, 66, 69, 83, 50, 45, 72, 83, 50, 53, 54, 43, 65, 49, 50, 56,
              75, 87>>
      [] s = "PBES2-HS384+A192KW" ->
            <<80, 66, 69, 83, 50, 45, 72, 83, 51, 56, 52, 43, 65, 49, 57, 50,
              75, 87>>
      [] s = "PBES2-HS512+A256KW" ->
            <<80, 66, 69, 83, 50, 45, 72, 83, 53, 49, 50, 43, 65, 50, 53, 54,
              75, 87>>
      [] s = "" -> <<>>

RECURSIVE Concat(_)
\* the concatenation of a sequence of sequences
Concat(seqs) ==
    IF seqs = <<>> THEN <<>> ELSE Head(seqs) \o Concat(Tail(seqs))

RECURSIVE JoinWith(_, _)
\* the sequences joined with sep between them
JoinWith(seqs, sep) ==
    IF Len(seqs) = 0 THEN <<>>
    ELSE IF Len(seqs) = 1 THEN seqs[1]
    ELSE seqs[1] \o sep \o JoinWith(Tail(seqs), sep)

(***************************************************************************)
(* serde_json::to_string of a header map (compact form, keys in the        *)
(* map's order, which is sorted by key)                                    *)
(***************************************************************************)
KeyOrder == <<"alg", "b64", "crit", "exp", "jwk", "kid", "x5c", "x5t">>

Quoted(s) == <<34>> \o Utf8(s) \o <<34>>

JsonScalar(t, s) == IF t = "string" THEN Quoted(s) ELSE Utf8(s)

JsonValue(val) ==
    IF val.t = "array"
    THEN <<91>> \o JoinWith([i \in 1..Len(val.a) |->
                                JsonScalar(val.a[i].t, val.a[i].s)], <<44>>)
              \o <<93>>
    ELSE IF val.t = "object" THEN <<123, 125>>
    ELSE JsonScalar(val.t, val.s)

ToJsonString(map) ==
    LET keys == SelectSeq(KeyOrder, LAMBDA k : k \in DOMAIN map)
    IN  <<123>> \o JoinWith([i \in 1..Len(keys) |->
                               Quoted(keys[i]) \o <<58>> \o JsonValue(map[keys[i]])],
                            <<44>>)
               \o <<125>>

(***************************************************************************)
(* base64 with the URL_SAFE_NO_PAD configuration                           *)
(***************************************************************************)
\* the character of the standard alphabet ('+', '/') for a sextet
B64Char_Mutant(v) ==
    IF v < 26 THEN 65 + v
    ELSE IF v < 52 THEN 97 + (v - 26)
    ELSE IF v < 62 THEN 48 + (v - 52)
    ELSE IF v = 62 THEN 43 ELSE 47

\* the character of the URL-safe alphabet for a sextet
B64Char(v) ==
    IF v < 26 THEN 65 + v
    ELSE IF v < 52 THEN 97 + (v - 26)
    ELSE IF v < 62 THEN 48 + (v - 52)
    ELSE IF v = 62 THEN 45 ELSE 95

\* the sextet of a character, -1 for one outside the alphabet
B64Val(c) ==
    IF c >= 65 /\ c <= 90 THEN c - 65
    ELSE IF c >= 97 /\ c <= 122 THEN c - 97 + 26
    ELSE IF c >= 48 /\ c <= 57 THEN c - 48 + 52
    ELSE IF c = 45 THEN 62
    ELSE IF c = 95 THEN 63 ELSE -1

Pow(b, e) == IF e = 0 THEN 1 ELSE IF e = 1 THEN b ELSE IF e = 2 THEN b * b ELSE b * b * b

\* base64::encode_config(bytes, URL_SAFE_NO_PAD)
Base64Encode(bytes) ==
    LET n == Len(bytes)
        at(i) == IF i <= n THEN bytes[i] ELSE 0
        group(g) == at(3 * g + 1) * 65536 + at(3 * g + 2) * 256 + at(3 * g + 3)
    IN  [i \in 1..((4 * n + 2) \div 3) |->
            B64Char((group((i - 1) \div 4) \div Pow(64, 3 - ((i - 1) % 4))) % 64)]

\* base64::decode_config(chars, URL_SAFE_NO_PAD): [ok, bytes]; an error for
\* a character outside the alphabet, a length of 1 mod 4, or non-zero
\* trailing bits in the last character
Base64Decode(chars) ==
    LET n == Len(chars)
        at(i) == IF i <= n THEN B64Val(chars[i]) ELSE 0
        group(g) == at(4 * g + 1) * 262144 + at(4 * g + 2) * 4096
                        + at(4 * g + 3) * 64 + at(4 * g + 4)
        symbolsOk == \A i \in 1..n : B64Val(chars[i]) >= 0
        lengthOk == n % 4 # 1
        lastOk == IF n % 4 = 2 THEN at(n) % 16 = 0
                  ELSE IF n % 4 = 3 THEN at(n) % 4 = 0 ELSE TRUE
    IN  IF symbolsOk /\ lengthOk /\ lastOk
        THEN [ok |-> TRUE,
              bytes |-> [k \in 1..((3 * n) \div 4) |->
                  (group((k - 1) \div 3) \div Pow(256, 2 - ((k - 1) % 3))) % 256]]
        ELSE [ok |-> FALSE, bytes |-> <<>>]

\* from_utf8 accepting every byte string
IsUtf8_Mutant(bytes) == TRUE

\* std::str::from_utf8 succeeds (for the bytes used here: ASCII is valid,
\* a lone byte >= 0x80 is not)
IsUtf8(bytes) == \A i \in 1..Len(bytes) : bytes[i] < 128

(***************************************************************************)
(* The signature primitive (openssl Signer / Verifier), kept abstract: a   *)
(* deterministic signature of SigLen bytes over a digest of the message.   *)
(***************************************************************************)
RECURSIVE DigestRange(_, _, _)
\* the polynomial digest of message[lo..hi] and 31^(hi-lo+1), by halves
DigestRange(message, lo, hi) ==
    IF lo > hi THEN [h |-> 0, p |-> 1]
    ELSE IF lo = hi THEN [h |-> message[lo] % 32749, p |-> 31]
    ELSE LET mid == (lo + hi) \div 2
             l == DigestRange(message, lo, mid)
             r == DigestRange(message, mid + 1, hi)
         IN  [h |-> (l.h * r.p + r.h) % 32749,
              p |-> (l.p * r.p) % 32749]

\* the digest the variant selects: sha256 / sha384 / sha512
MessageDigest(algorithm, message) ==
    (DigestRange(message, 1, Len(message)).h
        + (CASE algorithm = "RS256" -> 256
             [] algorithm = "RS384" -> 384
             [] algorithm = "RS512" -> 512)) % 32749

\* Signer::sign_to_vec
PrimSign(key, algorithm, message) ==
    LET h == MessageDigest(algorithm, message)
    IN  [i \in 1..SigLen |-> (h * (key + i) + i) % 256]

\* Verifier::verify returns Result<bool, ErrorStack>: the outcomes it can
\* give for a signature: Ok(true) "valid", Ok(false) "mismatch", Err "error".
\* A signature of the wrong length is malformed: the primitive reports it as
\* a mismatch or as an error.
PrimVerifyOutcomes(key, algorithm, message, signature) ==
    IF signature = PrimSign(key, algorithm, message) THEN {"valid"}
    ELSE IF Len(signature) = SigLen THEN {"mismatch"}
    ELSE {"mismatch", "error"}

(***************************************************************************)
(* Errors.  Inside the closures of jws.rs an error is an anyhow::Error     *)
(* that wraps either a JoseError (jose = TRUE, kind its variant) or         *)
(* something else: a bail! message, a base64::DecodeError.                  *)
(***************************************************************************)
NoError == [jose |-> FALSE, kind |-> "none"]
Bail == [jose |-> FALSE, kind |-> "bail"]
DecodeError == [jose |-> FALSE, kind |-> "DecodeError"]
JoseError(kind) == [jose |-> TRUE, kind |-> kind]

\* the map_err of serialize_compact and deserialize_compact: a JoseError is
\* passed through, anything else becomes InvalidJwtFormat
MapErr_Mutant(err) == IF err.jose THEN err.kind ELSE err.kind
MapErr(err) == IF err.jose THEN err.kind ELSE "InvalidJwtFormat"

(***************************************************************************)
(* RsassaJwsSigner / RsassaJwsVerifier                                     *)
(***************************************************************************)
\* Option<String>: <<>> is None, <<s>> is Some(s)
NoKeyId == <<>>
SomeKeyId(s) == <<s>>

\* RsassaJwsAlgorithm::name
Name(algorithm) == algorithm

\* RsassaJwsSigner::sign: the signature of the message under the private key
\* with the digest of the variant
RsassaSign(sgn, message) == PrimSign(sgn.key, sgn.algorithm, message)

\* RsassaJwsVerifier::verify, given the outcome of Verifier::verify: the `?`
\* propagates an Err as InvalidSignature; the bool of an Ok is dropped
RsassaVerify(outcome) ==
    IF outcome = "error" THEN JoseError("InvalidSignature") ELSE NoError

(***************************************************************************)
(* JwsSigner::serialize_compact                                            *)
(***************************************************************************)
\* whether some element of the array equals the string
AnyEq(vals, str) == \E i \in 1..Len(vals) : ValueEqStr(vals[i], str)

\* lines 109-118 never switching the encoding of the payload off
SerializeB64_Mutant(hdr) ==
    IF Get(hdr, "b64") = Bool(FALSE)
    THEN IF Get(hdr, "crit").t = "array"
         THEN IF AnyEq(Get(hdr, "crit").a, "b64") THEN "true" ELSE "bail"
         ELSE "true"
    ELSE "true"

\* lines 109-118: "true", "false", or "bail"
SerializeB64(hdr) ==
    IF Get(hdr, "b64") = Bool(FALSE)
    THEN IF Get(hdr, "crit").t = "array"
         THEN IF AnyEq(Get(hdr, "crit").a, "b64") THEN "false" ELSE "bail"
         ELSE "true"
    ELSE "true"

\* the result of a codec call
CodecFail(err, trace) ==
    [ok |-> FALSE, kind |-> MapErr(err), value |-> <<>>, trace |-> trace,
     verifyCalls |-> 0, signCalls |-> 0, message |-> <<>>, signature |-> <<>>,
     prim |-> "none"]

SerializeCompact(hdr, pl, sgn) ==
    LET b64 == SerializeB64(hdr)
    IN  IF b64 = "bail" THEN CodecFail(Bail, <<"b64">>)
        ELSE IF b64 = "false" /\ ~IsUtf8(pl) THEN CodecFail(Bail, <<"b64", "payload">>)
        ELSE IF b64 = "false" /\ (\E i \in 1..Len(pl) : pl[i] = Dot)
             THEN CodecFail(Bail, <<"b64", "payload">>)
        ELSE LET payloadRepr == IF b64 = "true" THEN Base64Encode(pl) ELSE pl
                 headerB64 == Base64Encode(ToJsonString(hdr))
                 message == headerB64 \o <<Dot>> \o payloadRepr
                 signature == RsassaSign(sgn, message)
             IN  [ok |-> TRUE, kind |-> "Ok",
                  value |-> message \o <<Dot>> \o Base64Encode(signature),
                  trace |-> <<"b64", "payload", "sign">>,
                  verifyCalls |-> 0, signCalls |-> 1,
                  message |-> message, signature |-> signature, prim |-> "none"]

(***************************************************************************)
(* JwsVerifier::deserialize_compact                                        *)
(***************************************************************************)
\* lines 192-196: the positions of the '.' characters, ascending
DotIndices(input) ==
    SelectSeq([i \in 1..Len(input) |-> i], LAMBDA i : input[i] = Dot)

\* line 197
SegmentCountOk_Mutant(indexies) == Len(indexies) >= 2
SegmentCountOk(indexies) == Len(indexies) = 2

\* lines 201-209
AlgMatches_Mutant(hdr, v) ==
    LET alg == Get(hdr, "alg")
    IN  alg = None \/ (alg.t = "string" /\ alg.s = Name(v.algorithm))
AlgMatches(hdr, v) ==
    LET alg == Get(hdr, "alg")
    IN  alg.t = "string" /\ alg.s = Name(v.algorithm)

\* lines 211-219
KidMatches_Mutant(hdr, v) ==
    LET actual == Get(hdr, "kid")
    IN  IF v.key_id # NoKeyId
        THEN actual # None /\ ValueEqStr(actual, v.key_id[1])
        ELSE TRUE
KidMatches(hdr, v) ==
    LET actual == Get(hdr, "kid")
    IN  IF v.key_id # NoKeyId /\ actual # None
        THEN ValueEqStr(actual, v.key_id[1])
        ELSE v.key_id = NoKeyId /\ actual = None

\* lines 221-230: "true", "false", or "bail"
DeserializeB64(hdr) ==
    IF Get(hdr, "b64") = Bool(FALSE)
    THEN IF Get(hdr, "crit").t = "array"
         THEN IF AnyEq(Get(hdr, "crit").a, "b64") THEN "false" ELSE "bail"
         ELSE "true"
    ELSE "true"

\* lines 232-246, reached once the checks on the header have passed: the
\* segments are cut out at the two '.', decoded, and handed to verify
DecodeAndVerify(hdr, input, indexies, outcome, checked) ==
    LET b64 == DeserializeB64(hdr) = "true"
        message == SubSeq(input, 1, indexies[2] - 1)
        payloadSeg == SubSeq(input, indexies[1] + 1, indexies[2] - 1)
        pl == IF b64 THEN Base64Decode(payloadSeg)
              ELSE [ok |-> TRUE, bytes |-> payloadSeg]
        sg == Base64Decode(SubSeq(input, indexies[2] + 1, Len(input)))
        verified == RsassaVerify(outcome)
    IN  IF ~pl.ok THEN CodecFail(DecodeError, checked \o <<"payload">>)
        ELSE IF ~sg.ok
        THEN CodecFail(DecodeError, checked \o <<"payload", "signature">>)
        ELSE [ok |-> verified = NoError,
              kind |-> IF verified = NoError THEN "Ok" ELSE MapErr(verified),
              value |-> IF verified = NoError THEN pl.bytes ELSE <<>>,
              trace |-> checked \o <<"payload", "signature", "verify">>,
              verifyCalls |-> 1, signCalls |-> 0,
              message |-> message, signature |-> sg.bytes,
              prim |-> outcome]

\* deserialize_compact with the kid check moved before the alg check
DeserializeCompact_Mutant(hdr, input, v, outcome) ==
    LET indexies == DotIndices(input)
    IN  IF ~SegmentCountOk(indexies) THEN CodecFail(Bail, <<"segments">>)
        ELSE IF ~KidMatches(hdr, v) THEN CodecFail(Bail, <<"segments", "kid">>)
        ELSE IF ~AlgMatches(hdr, v)
             THEN CodecFail(Bail, <<"segments", "kid", "alg">>)
        ELSE IF DeserializeB64(hdr) = "bail"
             THEN CodecFail(Bail, <<"segments", "kid", "alg", "b64">>)
        ELSE DecodeAndVerify(hdr, input, indexies, outcome,
                             <<"segments", "kid", "alg", "b64">>)

\* deserialize_compact(header, input) of verifier v; outcome is what the
\* primitive answers if verify consults it.  The result carries the checks
\* made, in order, up to the one that failed (trace).
DeserializeCompact(hdr, input, v, outcome) ==
    LET indexies == DotIndices(input)
    IN  IF ~SegmentCountOk(indexies) THEN CodecFail(Bail, <<"segments">>)
        ELSE IF ~AlgMatches(hdr, v) THEN CodecFail(Bail, <<"segments", "alg">>)
        ELSE IF ~KidMatches(hdr, v)
             THEN CodecFail(Bail, <<"segments", "alg", "kid">>)
        ELSE IF DeserializeB64(hdr) = "bail"
             THEN CodecFail(Bail, <<"segments", "alg", "kid", "b64">>)
        ELSE DecodeAndVerify(hdr, input, indexies, outcome,
                             <<"segments", "alg", "kid", "b64">>)

(***************************************************************************)
(* The codec's state machine: a caller holding a header map, a signer and  *)
(* a verifier for one key pair makes one call at a time.                    *)
(***************************************************************************)
NoCall == [op |-> "none"]
NoToken == <<>>
Unconstructed == [state |-> "unconstructed"]

\* the header maps a caller may pass: any JSON value under any claim name
AlgValues == {None, Str("RS256"), Str("RS384"), Num("1")}
KidValues == {None, Str("k1"), Str("k2"), Num("1")}
B64Values == {None, Bool(TRUE), Bool(FALSE)}
CritValues == {None, Arr(<<El("string", "b64")>>), Arr(<<El("string", "exp")>>),
               Str("b64")}

MakeMap(alg, kid, b64, crit) ==
    LET all == [k \in {"alg", "kid", "b64", "crit"} |->
                    CASE k = "alg" -> alg [] k = "kid" -> kid
                      [] k = "b64" -> b64 [] k = "crit" -> crit]
    IN  [k \in {x \in DOMAIN all : all[x] # None} |-> all[k]]

HeaderMaps ==
    {MakeMap(alg, kid, b64, crit) :
        alg \in AlgValues, kid \in KidValues, b64 \in B64Values, crit \in CritValues}

\* the payloads a caller signs: empty, text, text with a '.', not UTF-8
Payloads == {<<>>, <<104, 105, 33>>, <<97, 46>>, <<255>>}

\* c with bit k flipped
FlipBit(c, k) ==
    LET w == IF k < 4 THEN Pow(2, k) ELSE 8 * Pow(2, k - 3)
    IN  IF (c \div w) % 2 = 1 THEN c - w ELSE c + w

\* the three segments of a token with two '.'
Segments(tk) ==
    LET ix == DotIndices(tk)
    IN  <<SubSeq(tk, 1, ix[1] - 1), SubSeq(tk, ix[1] + 1, ix[2] - 1),
          SubSeq(tk, ix[2] + 1, Len(tk))>>

\* the strings a caller may hand to deserialize_compact: the token it holds
\* (or a stand-in before any was made), that token with one bit of its
\* signature segment flipped, with a segment damaged, and with fewer or more
\* '.' separated segments.  ('=' is left out: whether the decoder accepts
\* padding depends on the version of the base64 crate.)
TokenInputs ==
    LET tk == IF token # NoToken THEN token ELSE <<65, 65, 46, 65, 65, 46, 65, 65>>
        seg == Segments(tk)
        sigStart == Len(tk) - Len(seg[3]) + 1
        flips == {[tk EXCEPT ![p] = FlipBit(tk[p], k)] :
                      p \in sigStart..Len(tk), k \in 0..6}
        more == [i \in 1..(MaxDots + 1) |-> IF i <= 3 THEN seg[i] ELSE <<65, 65>>]
        counts == {JoinWith(SubSeq(more, 1, n + 1), <<Dot>>) : n \in 0..MaxDots}
        damaged == {JoinWith(<<seg[1], seg[2] \o <<42>>, seg[3]>>, <<Dot>>),
                    JoinWith(<<seg[1], seg[2], seg[3] \o <<42>>>>, <<Dot>>),
                    JoinWith(<<seg[1], seg[2], SubSeq(seg[3], 1, Len(seg[3]) - 1)>>,
                             <<Dot>>),
                    JoinWith(<<seg[1], seg[2], Base64Encode(<<7>>)>>, <<Dot>>),
                    JoinWith(<<seg[1], seg[2],
                               Base64Encode(RsassaSign(signer, <<120>>))>>, <<Dot>>)}
    IN  {x \in {tk} \cup flips \cup counts \cup damaged :
            \A i \in 1..Len(x) : x[i] # 61}

Init ==
    /\ header \in HeaderMaps
    /\ verifier = [algorithm |-> "RS256", key |-> 1, key_id |-> NoKeyId]
    /\ signer = [algorithm |-> "RS256", key |-> 1]
    /\ token = NoToken
    /\ payload = <<>>
    /\ claims = Unconstructed
    /\ res = NoCall

\* signer.serialize_compact(&header, payload)
Serialize ==
    /\ res = NoCall
    /\ \E pl \in Payloads :
          LET r == SerializeCompact(header, pl, signer)
          IN  /\ res' = [op |-> "serialize", input |-> pl, r |-> r]
              /\ token' = IF r.ok THEN r.value ELSE token
              /\ payload' = IF r.ok THEN pl ELSE payload
    /\ UNCHANGED <<header, verifier, signer, claims>>

\* verifier.deserialize_compact(&header, input)
Deserialize ==
    /\ res = NoCall
    /\ \E input \in TokenInputs :
          LET dry == DeserializeCompact(header, input, verifier, "valid")
              outcomes == IF dry.verifyCalls = 0 THEN {"none"}
                          ELSE PrimVerifyOutcomes(verifier.key, verifier.algorithm,
                                                  dry.message, dry.signature)
          IN  \E o \in outcomes :
                 res' = [op |-> "deserialize", input |-> input,
                         r |-> DeserializeCompact(header, input, verifier, o)]
    /\ UNCHANGED <<header, verifier, signer, token, payload, claims>>

\* verifier.set_key_id(key_id)
SetKeyId(key_id) ==
    /\ res = NoCall
    /\ verifier' = [verifier EXCEPT !.key_id = SomeKeyId(key_id)]
    /\ UNCHANGED <<header, signer, token, payload, claims, res>>

\* verifier.remove_key_id()
RemoveKeyId ==
    /\ res = NoCall
    /\ verifier' = [verifier EXCEPT !.key_id = NoKeyId]
    /\ UNCHANGED <<header, signer, token, payload, claims, res>>

\* the caller takes the result of the call
Return ==
    /\ res # NoCall
    /\ res' = NoCall
    /\ UNCHANGED <<header, verifier, signer, token, payload, claims>>

Next ==
    \/ Serialize
    \/ Deserialize
    \/ SetKeyId("k1")
    \/ RemoveKeyId
    \/ Return

Spec == Init /\ [][Next]_vars

(***************************************************************************)
(* The RSASSA signer and verifier called directly: a signer for key pair 1 *)
(* and a verifier for the public key of pair 1 or of pair 2.                *)
(***************************************************************************)
RsassaAlgorithms == {"RS256", "RS384", "RS512"}
Keys == {1, 2}

\* the messages and signatures handed to sign and verify
Messages == {<<>>, <<97>>, <<97, 98>>, <<0, 255>>}
SignatureInputs ==
    {PrimSign(k, a, m) : k \in Keys, a \in RsassaAlgorithms, m \in Messages}
        \cup {<<>>, <<7>>, [i \in 1..(SigLen + 1) |-> 7]}

InitRsassa ==
    /\ header = EmptyMap
    /\ \E a \in RsassaAlgorithms, k \in Keys :
          /\ verifier = [algorithm |-> a, key |-> k, key_id |-> NoKeyId]
          /\ signer = [algorithm |-> a, key |-> 1]
    /\ token = NoToken
    /\ payload = <<>>
    /\ claims = Unconstructed
    /\ res = NoCall

\* signer.sign(message)
Sign ==
    /\ res = NoCall
    /\ \E message \in Messages :
       res' = [op |-> "sign", input |-> <<message>>,
               r |-> [ok |-> TRUE, kind |-> "Ok",
                      value |-> RsassaSign(signer, message),
                      trace |-> <<"sign">>, verifyCalls |-> 0, signCalls |-> 1,
                      message |-> message,
                      signature |-> RsassaSign(signer, message),
                      prim |-> "none"]]
    /\ UNCHANGED <<header, verifier, signer, token, payload, claims>>

\* verifier.verify(message, signature)
Verify ==
    /\ res = NoCall
    /\ \E message \in Messages, signature \in SignatureInputs :
          \E o \in PrimVerifyOutcomes(verifier.key, verifier.algorithm,
                                      message, signature) :
             LET err == RsassaVerify(o)
             IN  res' = [op |-> "verify", input |-> <<message, signature>>,
                         r |-> [ok |-> err = NoError,
                                kind |-> IF err = NoError THEN "Ok" ELSE err.kind,
                                value |-> <<>>, trace |-> <<"verify">>,
                                verifyCalls |-> 1, signCalls |-> 0,
                                message |-> message, signature |-> signature,
                                prim |-> o]]
    /\ UNCHANGED <<header, verifier, signer, token, payload, claims>>

NextRsassa ==
    \/ Sign
    \/ Verify
    \/ Return

SpecRsassa == InitRsassa /\ [][NextRsassa]_vars

(***************************************************************************)
(* JwsHeader (src/jws/jws_header.rs)                                       *)
(***************************************************************************)
\* util::is_base64_url_safe_nopad: every character is of the URL-safe
\* alphabet (no '=' padding)
IsBase64UrlSafeNopad(str) ==
    LET chars == Utf8(str) IN \A i \in 1..Len(chars) : B64Val(chars[i]) >= 0

\* Jwk::check_map: the embedded JWK is valid (the objects of the model
\* stand for JWKs that Jwk::check_map accepts)
JwkCheckMap(val) == TRUE

\* check_claim without the checks on array elements and on base64 text
CheckClaim_Mutant(key, value) ==
    LET err == JoseError("InvalidJweFormat")
    IN  IF key \in {"alg", "jku", "x5u", "kid", "typ", "cty", "url",
                    "x5t", "x5t#S256", "nonce"}
        THEN IF value.t = "string" THEN NoError ELSE err
        ELSE IF key \in {"crit", "x5c"}
        THEN IF value.t = "array" THEN NoError ELSE err
        ELSE IF key = "jwk"
        THEN IF value.t = "object" THEN NoError ELSE err
        ELSE NoError

\* JwsHeader::check_claim: NoError, or the error for the claim
CheckClaim(key, value) ==
    LET err == JoseError("InvalidJweFormat")
    IN  IF key \in {"alg", "jku", "x5u", "kid", "typ", "cty", "url"}
        THEN IF value.t = "string" THEN NoError ELSE err
        ELSE IF key = "crit"
        THEN IF value.t = "array"
             THEN IF \A i \in 1..Len(value.a) : value.a[i].t = "string"
                  THEN NoError ELSE err
             ELSE err
        ELSE IF key \in {"x5t", "x5t#S256", "nonce"}
        THEN IF value.t = "string"
             THEN IF IsBase64UrlSafeNopad(value.s) THEN NoError ELSE err
             ELSE err
        ELSE IF key = "x5c"
        THEN IF value.t = "array"
             THEN IF \A i \in 1..Len(value.a) :
                        /\ value.a[i].t = "string"
                        /\ IsBase64UrlSafeNopad(value.a[i].s)
                  THEN NoError ELSE err
             ELSE err
        ELSE IF key = "jwk"
        THEN IF value.t = "object" /\ JwkCheckMap(value) THEN NoError ELSE err
        ELSE NoError

\* lines 50-60 of from_map: the b64 / crit rule checked at construction
FromMapB64Ok(map) ==
    IF Get(map, "b64") = Bool(FALSE)
    THEN IF Get(map, "crit").t = "array"
         THEN AnyEq(Get(map, "crit").a, "b64")
         ELSE TRUE
    ELSE TRUE

\* the result of a call on the header: the outcome and the claim at fault
HeaderResult(err, claim) ==
    [ok |-> err = NoError, kind |-> IF err = NoError THEN "Ok" ELSE err.kind,
     claim |-> claim]

\* from_map checking only the first entry of the map
FromMap_Mutant(map) ==
    LET keys == SelectSeq(KeyOrder, LAMBDA k : k \in DOMAIN map)
        bad == SelectSeq(keys, LAMBDA k : k = keys[1]
                                          /\ CheckClaim(k, map[k]) # NoError)
    IN  IF bad # <<>> THEN HeaderResult(CheckClaim(bad[1], map[bad[1]]), bad[1])
        ELSE IF ~FromMapB64Ok(map)
        THEN HeaderResult(JoseError("InvalidJwsFormat"), "b64")
        ELSE HeaderResult(NoError, "")

\* JwsHeader::from_map: the entries are checked in the order of the map
FromMap(map) ==
    LET keys == SelectSeq(KeyOrder, LAMBDA k : k \in DOMAIN map)
        bad == SelectSeq(keys, LAMBDA k : CheckClaim(k, map[k]) # NoError)
    IN  IF bad # <<>> THEN HeaderResult(CheckClaim(bad[1], map[bad[1]]), bad[1])
        ELSE IF ~FromMapB64Ok(map)
        THEN HeaderResult(JoseError("InvalidJwsFormat"), "b64")
        ELSE HeaderResult(NoError, "")

\* the claims maps handed to from_map: the header maps of the codec, and
\* maps with an x5t claim or a crit array holding a number
ClaimsMaps ==
    HeaderMaps
        \cup {Insert(m, "x5t", v) :
                m \in {EmptyMap, MakeMap(Str("RS256"), None, Bool(FALSE), None)},
                v \in {Str("AQID"), Str("a+b"), Num("1")}}
        \cup {MakeMap(Str("RS256"), None, b, Arr(<<El("string", "b64"), El("number", "1")>>)) :
                b \in B64Values}
        \cup {Insert(EmptyMap, "exp", v) :
                v \in {Num("1"), Str("k1"), Bool(TRUE), Obj, Arr(<<El("number", "1")>>)}}
        \cup {Insert(EmptyMap, "jwk", v) : v \in {Obj, Num("1"), Str("k1")}}
        \cup {Insert(EmptyMap, "x5c", v) :
                v \in {Arr(<<El("string", "AQID")>>), Arr(<<El("string", "a+b")>>),
                       Arr(<<El("number", "1")>>), Str("AQID")}}
        \cup {Insert(MakeMap(None, None, None, Str("b64")), "x5t", Str("a+b"))}

\* serde_json::from_slice on the bytes: the map whose JSON text they are
ParseJson(bytes) ==
    LET S == {m \in ClaimsMaps : ToJsonString(m) = bytes}
    IN  IF S = {} THEN [ok |-> FALSE, map |-> EmptyMap]
        ELSE [ok |-> TRUE, map |-> CHOOSE m \in S : TRUE]

\* JwsHeader::from_bytes
FromBytes(bytes) ==
    LET parsed == ParseJson(bytes)
    IN  IF ~parsed.ok THEN HeaderResult(JoseError("InvalidJson"), "")
        ELSE FromMap(parsed.map)

\* the byte strings handed to from_bytes: JSON objects, and text that is
\* no JSON object
JsonInputs ==
    {ToJsonString(m) : m \in {x \in ClaimsMaps : "kid" \notin DOMAIN x}}
        \cup {<<>>, <<123>>, <<91, 93>>}

InitHeader ==
    /\ header = EmptyMap
    /\ verifier = [algorithm |-> "RS256", key |-> 1, key_id |-> NoKeyId]
    /\ signer = [algorithm |-> "RS256", key |-> 1]
    /\ token = NoToken
    /\ payload = <<>>
    /\ claims = Unconstructed
    /\ res = NoCall

\* JwsHeader::new()
New ==
    /\ res = NoCall
    /\ claims = Unconstructed
    /\ claims' = EmptyMap
    /\ res' = [op |-> "new", input |-> EmptyMap, r |-> HeaderResult(NoError, "")]
    /\ UNCHANGED <<header, verifier, signer, token, payload>>

\* JwsHeader::from_map(map)
ConstructFromMap ==
    /\ res = NoCall
    /\ claims = Unconstructed
    /\ \E map \in ClaimsMaps :
          LET r == FromMap(map)
          IN  /\ res' = [op |-> "from_map", input |-> map, r |-> r]
              /\ claims' = IF r.ok THEN map ELSE claims
    /\ UNCHANGED <<header, verifier, signer, token, payload>>

\* JwsHeader::from_bytes(value)
ConstructFromBytes ==
    /\ res = NoCall
    /\ claims = Unconstructed
    /\ \E bytes \in JsonInputs :
          LET r == FromBytes(bytes)
          IN  /\ res' = [op |-> "from_bytes", input |-> bytes, r |-> r]
              /\ claims' = IF r.ok THEN ParseJson(bytes).map ELSE claims
    /\ UNCHANGED <<header, verifier, signer, token, payload>>

\* set_claim inserting the value before it is checked
SetClaim_Mutant(cl, key, value) ==
    IF value # <<>>
    THEN LET err == CheckClaim(key, value[1])
         IN  [r |-> HeaderResult(err, IF err = NoError THEN "" ELSE key),
              claims |-> Insert(cl, key, value[1])]
    ELSE [r |-> HeaderResult(NoError, ""), claims |-> Remove(cl, key)]

\* JoseHeader::set_claim on claims cl: the result and the claims afterwards
SetClaim(cl, key, value) ==
    IF value # <<>>
    THEN LET err == CheckClaim(key, value[1])
         IN  IF err # NoError
             THEN [r |-> HeaderResult(err, key), claims |-> cl]
             ELSE [r |-> HeaderResult(NoError, ""),
                   claims |-> Insert(cl, key, value[1])]
    ELSE [r |-> HeaderResult(NoError, ""), claims |-> Remove(cl, key)]

\* the claim names and the values (Some) a caller passes to set_claim
ClaimNames == {"alg", "b64", "crit", "exp", "jwk", "kid", "x5c", "x5t"}
SetClaimValues(key) ==
    CASE key = "alg" -> {Str("RS256"), Num("1")}
      [] key = "kid" -> {Str("k1"), Bool(TRUE)}
      [] key = "b64" -> {Bool(FALSE), Bool(TRUE)}
      [] key = "crit" -> {Arr(<<El("string", "b64")>>), Str("b64"),
                          Arr(<<El("string", "b64"), El("number", "1")>>)}
      [] key = "x5t" -> {Str("AQID"), Str("a+b"), Num("1")}
      [] key = "x5c" -> {Arr(<<El("string", "AQID")>>),
                         Arr(<<El("string", "a+b")>>), Str("AQID")}
      [] key = "jwk" -> {Obj, Num("1")}
      [] key = "exp" -> {Num("1"), Obj}

\* the String of a byte sequence that is the UTF-8 text of one
Strings == {"", "AQID", "-w", "a+b", "k1", "b64", "exp", "RS256"}
StringOf(bytes) == CHOOSE str \in Strings : Utf8(str) = bytes

\* the byte strings handed to the setters that base64url-encode
ByteInputs == {<<1, 2, 3>>, <<251>>}

\* a call of a typed setter: it inserts the value and returns nothing
TypedSet(op, input, key, value) ==
    /\ res = NoCall
    /\ claims # Unconstructed
    /\ claims' = Insert(claims, key, value)
    /\ res' = [op |-> op, input |-> input, r |-> HeaderResult(NoError, ""),
               before |-> claims]
    /\ UNCHANGED <<header, verifier, signer, token, payload>>

\* header.set_claim(key, value)
SetClaimCall ==
    /\ res = NoCall
    /\ claims # Unconstructed
    /\ \E key \in ClaimNames :
          \E value \in {<<>>} \cup {<<v>> : v \in SetClaimValues(key)} :
             LET out == SetClaim(claims, key, value)
             IN  /\ claims' = out.claims
                 /\ res' = [op |-> "set_claim", input |-> <<key, value>>,
                            r |-> out.r, before |-> claims]
    /\ UNCHANGED <<header, verifier, signer, token, payload>>

\* header.set_algorithm(value)
SetAlgorithm(value) == TypedSet("set_algorithm", value, "alg", Str(value))

\* header.set_key_id(value)
HeaderSetKeyId(value) == TypedSet("set_key_id", value, "kid", Str(value))

\* header.set_critical(values)
SetCritical ==
    \E values \in {<<"b64">>, <<"exp">>} :
       TypedSet("set_critical", values, "crit",
                Arr([i \in 1..Len(values) |-> El("string", values[i])]))

\* header.set_base64url_encode_payload(value)
SetBase64urlEncodePayload ==
    \E value \in BOOLEAN :
       TypedSet("set_base64url_encode_payload", value, "b64", Bool(value))

\* header.set_x509_certificate_sha1_thumbprint(value)
SetX509CertificateSha1Thumbprint ==
    \E value \in ByteInputs :
       TypedSet("set_x509_certificate_sha1_thumbprint", value, "x5t",
                Str(StringOf(Base64Encode(value))))

\* header.set_x509_certificate_chain(values)
SetX509CertificateChain ==
    \E values \in {<<<<1, 2, 3>>>>} :
       TypedSet("set_x509_certificate_chain", values, "x5c",
                Arr([i \in 1..Len(values) |->
                        El("string", StringOf(Base64Encode(values[i])))]))

\* header.set_jwk(value)
SetJwk == TypedSet("set_jwk", Obj, "jwk", Obj)

NextHeader ==
    \/ New
    \/ ConstructFromMap
    \/ ConstructFromBytes
    \/ SetClaimCall
    \/ SetAlgorithm("RS256")
    \/ HeaderSetKeyId("k1")
    \/ SetCritical
    \/ SetBase64urlEncodePayload
    \/ SetX509CertificateSha1Thumbprint
    \/ SetX509CertificateChain
    \/ SetJwk
    \/ Return

SpecHeader == InitHeader /\ [][NextHeader]_vars

(***************************************************************************)
(* Key acceptance of RsassaJwsAlgorithm (src/jws/alg/rsassa.rs): the       *)
(* constructors of signers and verifiers from DER, PEM and JWK.            *)
(*                                                                         *)
(* A DER input is [env, body, bits]: the envelopes around the key          *)
(* structure, outermost first ("pkcs8" for PrivateKeyInfo, "spki" for      *)
(* SubjectPublicKeyInfo), the key structure, and the number of bits of the *)
(* modulus.  A PEM input is [framed, label, data].  A JWK is a map of      *)
(* Values; the parameters n .. qi hold their text as bytes.                *)
(***************************************************************************)
Der(env, body, bits) == [env |-> env, body |-> body, bits |-> bits]
NoDer == Der(<<>>, "none", 0)
NoKey == [type |-> "none", bits |-> 0, private |-> FALSE]
NoObject == [state |-> "unconstructed"]

\* RsaKeyPair::detect_pkcs8(input, is_public): the input is a PrivateKeyInfo
\* (is_public: a SubjectPublicKeyInfo) by its structure
DetectPkcs8(input, is_public) ==
    input.env # <<>> /\ input.env[1] = (IF is_public THEN "spki" ELSE "pkcs8")

\* RsaKeyPair::to_pkcs8(input, is_public): the input inside the envelope
ToPkcs8(input, is_public) ==
    Der(<<IF is_public THEN "spki" ELSE "pkcs8">> \o input.env, input.body,
        input.bits)

\* PKey::private_key_from_der: [ok, key]; a PrivateKeyInfo around a private
\* key structure, or the bare structure of an RSA private key
PrivateKeyFromDer(der) ==
    IF \/ der.env = <<"pkcs8">> /\ der.body \in {"RSAPrivateKey", "ECPrivateKey"}
       \/ der.env = <<>> /\ der.body = "RSAPrivateKey"
    THEN [ok |-> TRUE,
          key |-> [type |-> IF der.body = "RSAPrivateKey" THEN "RSA" ELSE "EC",
                   bits |-> der.bits, private |-> TRUE]]
    ELSE [ok |-> FALSE, key |-> NoKey]

\* PKey::public_key_from_der: [ok, key]; a SubjectPublicKeyInfo around a
\* public key structure
PublicKeyFromDer(der) ==
    IF der.env = <<"spki">> /\ der.body \in {"RSAPublicKey", "ECPublicKey"}
    THEN [ok |-> TRUE,
          key |-> [type |-> IF der.body = "RSAPublicKey" THEN "RSA" ELSE "EC",
                   bits |-> der.bits, private |-> FALSE]]
    ELSE [ok |-> FALSE, key |-> NoKey]

\* PKey::*_from_der for the kind of key asked for
KeyFromDer(der, is_public) ==
    IF is_public THEN PublicKeyFromDer(der) ELSE PrivateKeyFromDer(der)

\* Rsa::size: the number of bytes of the modulus
RsaSize(bits) == (bits + 7) \div 8

\* RsassaJwsAlgorithm::check_key: the key is an RSA key and passes the floor
CheckKey(key) == key.type = "RSA" /\ ~(RsaSize(key.bits) * 8 < 2048)

\* the result of a constructor: the outcome, the step that failed, the DER
\* handed to PKey::*_from_der, and the signer or verifier made
KeyFail(at, parsed) ==
    [ok |-> FALSE, kind |-> "InvalidKeyFormat", at |-> at, parsed |-> parsed,
     made |-> NoObject]
KeyMade(self, key, key_id, parsed) ==
    [ok |-> TRUE, kind |-> "Ok", at |-> "", parsed |-> parsed,
     made |-> [algorithm |-> self, key |-> key, key_id |-> key_id]]

\* lines 53-59, 88-92, 238-246, 277-283: the DER is parsed, the key checked
\* and the signer or verifier made
AcceptDer(self, der, is_public, key_id) ==
    LET parsed == KeyFromDer(der, is_public)
    IN  IF ~parsed.ok THEN KeyFail("from_der", der)
        ELSE IF ~CheckKey(parsed.key) THEN KeyFail("check_key", der)
        ELSE KeyMade(self, parsed.key, key_id, der)

\* signer_from_der (keypair_from_der) and verifier_from_der
FromDer(self, input, is_public) ==
    AcceptDer(self,
              IF DetectPkcs8(input, is_public) THEN input
              ELSE ToPkcs8(input, is_public),
              is_public, NoKeyId)

\* util::parse_pem: [ok, alg, data]
ParsePem(input) ==
    IF input.framed THEN [ok |-> TRUE, alg |-> input.label, data |-> input.data]
    ELSE [ok |-> FALSE, alg |-> "", data |-> NoDer]

\* the match on the PEM label with every other label taken as PKCS#1
PemDispatch_Mutant(alg, is_public) ==
    IF alg = (IF is_public THEN "PUBLIC KEY" ELSE "PRIVATE KEY") THEN "direct"
    ELSE "wrap"

\* lines 77-87, 265-275: the match on the PEM label
PemDispatch(alg, is_public) ==
    IF alg = (IF is_public THEN "PUBLIC KEY" ELSE "PRIVATE KEY") THEN "direct"
    ELSE IF alg = (IF is_public THEN "RSA PUBLIC KEY" ELSE "RSA PRIVATE KEY")
    THEN "wrap"
    ELSE "bail"

\* signer_from_pem (keypair_from_pem) and verifier_from_pem
FromPem(self, input, is_public) ==
    LET pem == ParsePem(input)
        how == PemDispatch(pem.alg, is_public)
    IN  IF ~pem.ok THEN KeyFail("parse_pem", NoDer)
        ELSE IF how = "bail" THEN KeyFail("label", NoDer)
        ELSE IF how = "direct"
        THEN IF DetectPkcs8(pem.data, is_public)
             THEN AcceptDer(self, pem.data, is_public, NoKeyId)
             ELSE KeyFail("contents", NoDer)
        ELSE AcceptDer(self, ToPkcs8(pem.data, is_public), is_public, NoKeyId)

\* Jwk::key_type
KeyType(jwk) == Get(jwk, "kty").s
\* Jwk::key_use, Jwk::algorithm, Jwk::key_id: Option<&str>
JwkOption(jwk, name) ==
    IF Get(jwk, name).t = "string" THEN <<Get(jwk, name).s>> ELSE <<>>
\* Jwk::is_for_key_operation: key_ops is absent or lists the operation
IsForKeyOperation(jwk, op) ==
    Get(jwk, "key_ops").t # "array" \/ AnyEq(Get(jwk, "key_ops").a, op)
\* Jwk::parameter
Parameter(jwk, name) == Get(jwk, name)

\* the parameters read, in the order of the code
SignerParams == <<"n", "e", "d", "p", "q", "dp", "dq", "qi">>
VerifierParams == <<"n", "e">>

\* the match on a parameter without the decoding of its text
ParamOk_Mutant(jwk, name) == Parameter(jwk, name).t = "string"

\* the match on jwk.parameter(name): a string that decodes as base64url
ParamOk(jwk, name) ==
    /\ Parameter(jwk, name).t = "string"
    /\ Base64Decode(Parameter(jwk, name).s).ok

\* the number of bits of a big-endian unsigned integer
BitLength(bytes) ==
    CHOOSE n \in
        {LET nz == SelectSeq([i \in 1..Len(bs) |-> i], LAMBDA i : bs[i] # 0)
         IN  IF nz = <<>> THEN 0
             ELSE LET b == bs[nz[1]]
                      top == IF b >= 128 THEN 8 ELSE IF b >= 64 THEN 7
                             ELSE IF b >= 32 THEN 6 ELSE IF b >= 16 THEN 5
                             ELSE IF b >= 8 THEN 4 ELSE IF b >= 4 THEN 3
                             ELSE IF b >= 2 THEN 2 ELSE 1
                  IN  8 * (Len(bs) - nz[1]) + top : bs \in {bytes}} : TRUE

\* the PKCS#1 structure built with e in the place of n
BuildDer_Mutant(jwk, is_public) ==
    Der(<<>>, IF is_public THEN "RSAPublicKey" ELSE "RSAPrivateKey",
        BitLength(Base64Decode(Parameter(jwk, "e").s).bytes))

\* lines 193-209, 323-332: the PKCS#1 structure built from the decoded
\* parameters
BuildDer(jwk, is_public) ==
    Der(<<>>, IF is_public THEN "RSAPublicKey" ELSE "RSAPrivateKey",
        BitLength(Base64Decode(Parameter(jwk, "n").s).bytes))

\* signer_from_jwk and verifier_from_jwk
FromJwk(self, jwk, is_public) ==
    LET params == IF is_public THEN VerifierParams ELSE SignerParams
        bad == SelectSeq(params, LAMBDA name : ~ParamOk(jwk, name))
    IN  IF KeyType(jwk) # "RSA" THEN KeyFail("kty", NoDer)
        ELSE IF JwkOption(jwk, "use") \notin {<<>>, <<"sig">>}
        THEN KeyFail("use", NoDer)
        ELSE IF ~IsForKeyOperation(jwk, IF is_public THEN "verify" ELSE "sign")
        THEN KeyFail("key_ops", NoDer)
        ELSE IF JwkOption(jwk, "alg") \notin {<<>>, <<Name(self)>>}
        THEN KeyFail("alg", NoDer)
        ELSE IF bad # <<>> THEN KeyFail(bad[1], NoDer)
        ELSE AcceptDer(self, ToPkcs8(BuildDer(jwk, is_public), is_public),
                       is_public, JwkOption(jwk, "kid"))

\* the numbers of bits of the moduli of the keys handed in
KeyBits == {1024, 2040, 2047, 2048}

DerInputs ==
    {Der(env, body, bits) :
        env \in {<<>>, <<"pkcs8">>, <<"spki">>},
        body \in {"RSAPrivateKey", "RSAPublicKey", "ECPrivateKey", "ECPublicKey",
                  "garbage"},
        bits \in KeyBits}

PemLabels ==
    {"PRIVATE KEY", "RSA PRIVATE KEY", "PUBLIC KEY", "RSA PUBLIC KEY",
     "EC PRIVATE KEY", "CERTIFICATE"}
PemInputs ==
    {[framed |-> TRUE, label |-> label, data |-> data] :
        label \in PemLabels, data \in DerInputs}
        \cup {[framed |-> FALSE, label |-> "", data |-> NoDer]}

\* the big-endian bytes of a modulus of that many bits
Modulus(bits) ==
    [i \in 1..((bits + 7) \div 8) |->
        IF i = 1
        THEN LET top == ((bits - 1) % 8) + 1
             IN  IF top = 8 THEN 255 ELSE IF top = 7 THEN 127
                 ELSE IF top = 6 THEN 63 ELSE IF top = 5 THEN 31
                 ELSE IF top = 4 THEN 15 ELSE IF top = 3 THEN 7
                 ELSE IF top = 2 THEN 3 ELSE 1
        ELSE 255]

\* the values of a numeric parameter: well formed, absent, no string, text
\* that is no base64url
IntegerText == Str(Base64Encode(<<1, 0, 1>>))
Damaged == {None, Num("1"), Str(<<97, 43, 98>>), Str(<<65>>)}

\* a JWK of an RSA key with that modulus and those optional members
MakeJwk(kty, use, key_ops, alg, kid, n) ==
    LET all == [k \in {"kty", "use", "key_ops", "alg", "kid"} \cup
                      {SignerParams[i] : i \in 1..Len(SignerParams)} |->
                    CASE k = "kty" -> kty [] k = "use" -> use
                      [] k = "key_ops" -> key_ops [] k = "alg" -> alg
                      [] k = "kid" -> kid [] k = "n" -> n
                      [] OTHER -> IntegerText]
    IN  [k \in {x \in DOMAIN all : all[x] # None} |-> all[k]]

ModulusTexts == {Str(Base64Encode(Modulus(bits))) : bits \in {2047, 2048}}

JwkInputs ==
    LET plain == {MakeJwk(kty, use, key_ops, alg, kid, n) :
                    kty \in {Str("RSA"), Str("EC")},
                    use \in {None, Str("sig"), Str("enc")},
                    key_ops \in {None, Arr(<<El("string", "sign")>>),
                                 Arr(<<El("string", "verify")>>),
                                 Arr(<<El("string", "sign"),
                                       El("string", "verify")>>)},
                    alg \in {None, Str("RS256"), Str("RS384")},
                    kid \in {None, Str("k1")},
                    n \in {Str(Base64Encode(Modulus(2048)))}}
        good == {MakeJwk(Str("RSA"), None, None, alg, None, n) :
                    alg \in {None, Str("RS384")}, n \in ModulusTexts}
        damaged == {IF v = None THEN Remove(jwk, name) ELSE Insert(jwk, name, v) :
                      jwk \in good,
                      name \in {SignerParams[i] : i \in 1..Len(SignerParams)},
                      v \in Damaged}
    IN  plain \cup damaged

InitKeys ==
    /\ header = EmptyMap
    /\ verifier = NoObject
    /\ signer = NoObject
    /\ token = NoToken
    /\ payload = <<>>
    /\ claims = Unconstructed
    /\ res = NoCall

\* a call of a constructor of signers: the signer made replaces the one held
MakeSigner(op, self, input, r) ==
    /\ res' = [op |-> op, self |-> self, input |-> input, r |-> r]
    /\ signer' = IF r.ok THEN r.made ELSE signer
    /\ UNCHANGED <<header, verifier, token, payload, claims>>

\* a call of a constructor of verifiers
MakeVerifier(op, self, input, r) ==
    /\ res' = [op |-> op, self |-> self, input |-> input, r |-> r]
    /\ verifier' = IF r.ok THEN r.made ELSE verifier
    /\ UNCHANGED <<header, signer, token, payload, claims>>

\* alg.signer_from_der(input)
SignerFromDer ==
    /\ res = NoCall
    /\ \E self \in {"RS256"}, input \in DerInputs :
          MakeSigner("signer_from_der", self, input, FromDer(self, input, FALSE))

\* alg.signer_from_pem(input)
SignerFromPem ==
    /\ res = NoCall
    /\ \E self \in {"RS256"}, input \in PemInputs :
          MakeSigner("signer_from_pem", self, input, FromPem(self, input, FALSE))

\* alg.signer_from_jwk(jwk)
SignerFromJwk ==
    /\ res = NoCall
    /\ \E self \in {"RS256"}, jwk \in JwkInputs :
          MakeSigner("signer_from_jwk", self, jwk, FromJwk(self, jwk, FALSE))

\* alg.verifier_from_der(input)
VerifierFromDer ==
    /\ res = NoCall
    /\ \E self \in {"RS256"}, input \in DerInputs :
          MakeVerifier("verifier_from_der", self, input,
                       FromDer(self, input, TRUE))

\* alg.verifier_from_pem(input)
VerifierFromPem ==
    /\ res = NoCall
    /\ \E self \in {"RS256"}, input \in PemInputs :
          MakeVerifier("verifier_from_pem", self, input,
                       FromPem(self, input, TRUE))

\* alg.verifier_from_jwk(jwk)
VerifierFromJwk ==
    /\ res = NoCall
    /\ \E self \in {"RS256"}, jwk \in JwkInputs :
          MakeVerifier("verifier_from_jwk", self, jwk, FromJwk(self, jwk, TRUE))

NextKeys ==
    \/ SignerFromDer
    \/ SignerFromPem
    \/ SignerFromJwk
    \/ VerifierFromDer
    \/ VerifierFromPem
    \/ VerifierFromJwk
    \/ Return

SpecKeys == InitKeys /\ [][NextKeys]_vars

(***************************************************************************)
(* Signing and verifying with signers and verifiers built from key         *)
(* material: the private and the public key of a pair in each input form.  *)
(* The modulus stands for the pair: a public key matches a private key     *)
(* when the moduli are the same.                                           *)
(***************************************************************************)
PairBits == {2048, 3072}
KeyForms == {"der", "der-pkcs1", "pem", "pem-pkcs1", "jwk"}
RoundTripMessages == {<<>>, <<0, 255>>}

\* the key of the pair with that modulus, private or public, in a form
KeyMaterialOf(form, bits, is_public) ==
    LET body == IF is_public THEN "RSAPublicKey" ELSE "RSAPrivateKey"
        bare == Der(<<>>, body, bits)
        enveloped == ToPkcs8(bare, is_public)
    IN  CASE form = "der" -> enveloped
          [] form = "der-pkcs1" -> bare
          [] form = "pem" ->
                [framed |-> TRUE,
                 label |-> IF is_public THEN "PUBLIC KEY" ELSE "PRIVATE KEY",
                 data |-> enveloped]
          [] form = "pem-pkcs1" ->
                [framed |-> TRUE,
                 label |-> IF is_public THEN "RSA PUBLIC KEY"
                           ELSE "RSA PRIVATE KEY",
                 data |-> bare]
          [] form = "jwk" ->
                MakeJwk(Str("RSA"), None, None, None, None,
                        Str(Base64Encode(Modulus(bits))))

\* the key material of every pair and form
KeyMaterials ==
    [form \in KeyForms, bits \in PairBits, is_public \in BOOLEAN |->
        KeyMaterialOf(form, bits, is_public)]
KeyMaterial(form, bits, is_public) == KeyMaterials[form, bits, is_public]

\* the constructor for a form, and its result on the key material
ConstructorOf(form, is_public) ==
    (IF is_public THEN "verifier_from_" ELSE "signer_from_")
        \o (IF form \in {"der", "der-pkcs1"} THEN "der"
            ELSE IF form \in {"pem", "pem-pkcs1"} THEN "pem" ELSE "jwk")
Construct(self, form, input, is_public) ==
    IF form \in {"der", "der-pkcs1"} THEN FromDer(self, input, is_public)
    ELSE IF form \in {"pem", "pem-pkcs1"} THEN FromPem(self, input, is_public)
    ELSE FromJwk(self, input, is_public)

\* the signer as sign reads it: the variant and the key
SigningKey(sgn) == [algorithm |-> sgn.algorithm, key |-> sgn.key.bits]

InitRoundTrip ==
    /\ header = EmptyMap
    /\ verifier = NoObject
    /\ signer = NoObject
    /\ token = NoToken
    /\ payload = <<>>
    /\ claims = Unconstructed
    /\ res = NoCall

\* alg.signer_from_der / signer_from_pem / signer_from_jwk on a private key;
\* the signer of a run is constructed once
BuildSigner ==
    /\ res = NoCall
    /\ signer = NoObject
    /\ \E self \in RsassaAlgorithms, form \in KeyForms, bits \in PairBits :
          \E input \in {KeyMaterial(form, bits, FALSE)} :
          \E r \in {Construct(self, form, input, FALSE)} :
              /\ res' = [op |-> ConstructorOf(form, FALSE), self |-> self,
                         form |-> form, bits |-> bits, input |-> input, r |-> r]
              /\ signer' = IF r.ok THEN r.made ELSE signer
    /\ UNCHANGED <<header, verifier, token, payload, claims>>

\* alg.verifier_from_der / verifier_from_pem / verifier_from_jwk on a
\* public key; the verifier of a run is constructed once
BuildVerifier ==
    /\ res = NoCall
    /\ verifier = NoObject
    /\ \E self \in RsassaAlgorithms, form \in KeyForms, bits \in PairBits :
          \E input \in {KeyMaterial(form, bits, TRUE)} :
          \E r \in {Construct(self, form, input, TRUE)} :
              /\ res' = [op |-> ConstructorOf(form, TRUE), self |-> self,
                         form |-> form, bits |-> bits, input |-> input, r |-> r]
              /\ verifier' = IF r.ok THEN r.made ELSE verifier
    /\ UNCHANGED <<header, signer, token, payload, claims>>

\* signer.sign(message): the signature is kept with the message and the
\* signer that made it
SignMessage ==
    /\ res = NoCall
    /\ signer # NoObject
    /\ \E message \in RoundTripMessages :
          LET signature == RsassaSign(SigningKey(signer), message)
          IN  /\ res' = [op |-> "sign", input |-> <<message>>,
                         r |-> [ok |-> TRUE, kind |-> "Ok", value |-> signature]]
              /\ token' = [signature |-> signature, signer |-> signer]
              /\ payload' = message
    /\ UNCHANGED <<header, verifier, signer, claims>>

\* verifier.verify(message, signature) on the signature kept
VerifySignature ==
    /\ res = NoCall
    /\ verifier # NoObject
    /\ token # NoToken
    /\ \E message \in RoundTripMessages :
          \E o \in PrimVerifyOutcomes(verifier.key.bits, verifier.algorithm,
                                      message, token.signature) :
             LET err == RsassaVerify(o)
             IN  res' = [op |-> "verify", input |-> <<message, token.signature>>,
                         r |-> [ok |-> err = NoError,
                                kind |-> IF err = NoError THEN "Ok" ELSE err.kind,
                                prim |-> o]]
    /\ UNCHANGED <<header, verifier, signer, token, payload, claims>>

NextRoundTrip ==
    \/ BuildSigner
    \/ BuildVerifier
    \/ SignMessage
    \/ VerifySignature
    \/ Return

SpecRoundTrip == InitRoundTrip /\ [][NextRoundTrip]_vars

(***************************************************************************)
(* jwe/alg/native_aeskw.rs: one AES block enciphered and deciphered under  *)
(* a key.  The block cipher of the aes crate is a keyed permutation of the *)
(* 16-byte blocks; decrypt_block is computed as the inverse of             *)
(* encrypt_block.  A call ends with a value, with an error, or in a panic. *)
(***************************************************************************)
AesOk(value) == [ok |-> TRUE, kind |-> "Ok", value |-> value]
AesErr(kind) == [ok |-> FALSE, kind |-> kind, value |-> <<>>]

\* Aes*::new(key).encrypt_block(&mut out)
EncryptBlock(pk, block) ==
    [i \in 1..16 |->
        (block[(i % 16) + 1] + pk[((i - 1) % Len(pk)) + 1]) % 256]

\* the block deciphered with the enciphering direction
DecryptBlock_Mutant(pk, block) == EncryptBlock(pk, block)

\* Aes*::new(key).decrypt_block(&mut out)
DecryptBlock(pk, block) ==
    [i \in 1..16 |->
        (block[((i + 14) % 16) + 1] + 256
            - pk[(((i + 14) % 16) % Len(pk)) + 1]) % 256]

\* lines 18-31 and 39-52: GenericArray::clone_from_slice(data) takes a
\* slice of exactly the block length and panics on any other; the arm of
\* key_length takes the key with GenericArray::from_slice, which panics
\* when the slice has not the length of the key of that cipher; any other
\* key_length is the Generic error
Aeskw(key_length, pk, data, encipher) ==
    IF Len(data) # 16 THEN AesErr("panic")
    ELSE IF key_length \in {16, 24, 32}
    THEN IF Len(pk) # key_length THEN AesErr("panic")
         ELSE AesOk(IF encipher THEN EncryptBlock(pk, data)
                    ELSE DecryptBlock(pk, data))
    ELSE AesErr("Generic")

\* encrypt_aeskw, lines 13-32
EncryptAeskw(key_length, pk, data) == Aeskw(key_length, pk, data, TRUE)
\* decrypt_aeskw, lines 34-53
DecryptAeskw(key_length, pk, data) == Aeskw(key_length, pk, data, FALSE)

\* byte strings of a length, and the inputs of the two functions
Filled(first, len) == [i \in 1..len |-> (first + 7 * i) % 256]
AesKeyLengths == {8, 16, 24, 32}
AesKeys == {Filled(first, len) : first \in {0, 200}, len \in {15, 16, 24, 32}}
AesData == {Filled(first, len) : first \in {1, 250}, len \in {0, 15, 16, 17}}

\* the last block enciphered, with the key and the plaintext
NoBlock == [state |-> "none"]

InitAeskw ==
    /\ header = EmptyMap
    /\ verifier = NoObject
    /\ signer = NoObject
    /\ token = NoBlock
    /\ payload = <<>>
    /\ claims = Unconstructed
    /\ res = NoCall

EncryptAeskwCall ==
    /\ res = NoCall
    /\ \E key_length \in AesKeyLengths, pk \in AesKeys, data \in AesData :
          LET r == EncryptAeskw(key_length, pk, data)
          IN  /\ res' = [op |-> "encrypt_aeskw", key_length |-> key_length,
                         pk |-> pk, data |-> data, r |-> r]
              /\ token' = IF r.ok
                          THEN [state |-> "enciphered", key_length |-> key_length,
                                pk |-> pk, data |-> r.value]
                          ELSE token
              /\ payload' = IF r.ok THEN data ELSE payload
    /\ UNCHANGED <<header, verifier, signer, claims>>

\* decrypt_aeskw on any data, the block enciphered before included
DecryptAeskwCall ==
    /\ res = NoCall
    /\ \E key_length \in AesKeyLengths, pk \in AesKeys,
          data \in AesData \cup (IF token = NoBlock THEN {} ELSE {token.data}) :
          res' = [op |-> "decrypt_aeskw", key_length |-> key_length,
                  pk |-> pk, data |-> data,
                  r |-> DecryptAeskw(key_length, pk, data)]
    /\ UNCHANGED <<header, verifier, signer, token, payload, claims>>

NextAeskw ==
    \/ EncryptAeskwCall
    \/ DecryptAeskwCall
    \/ Return

SpecAeskw == InitAeskw /\ [][NextAeskw]_vars

(***************************************************************************)
(* jwe/alg/pbes2_hmac_aeskw.rs: PBES2 with HMAC and AES key wrap.  The     *)
(* encrypter is kept in signer, the decrypter in verifier, the JWE header  *)
(* of the caller in header, the outcome of encrypt in token.  PBKDF2 and   *)
(* the AES key wrap of OpenSSL are kept abstract: a derived key that is a  *)
(* function of password, salt, count and digest, and a wrap that puts an   *)
(* 8-byte integrity block in front of the enciphered key.                  *)
(***************************************************************************)
Pbes2Algorithms == {"Pbes2HS256A128Kw", "Pbes2HS384A192Kw", "Pbes2HS512A256Kw"}

\* hash_algorithm, lines 152-158
Pbes2HashAlgorithm(self) ==
    CASE self = "Pbes2HS256A128Kw" -> "Sha256"
      [] self = "Pbes2HS384A192Kw" -> "Sha384"
      [] self = "Pbes2HS512A256Kw" -> "Sha512"

\* derived_key_len, lines 160-166
DerivedKeyLen(self) ==
    CASE self = "Pbes2HS256A128Kw" -> 16
      [] self = "Pbes2HS384A192Kw" -> 24
      [] self = "Pbes2HS512A256Kw" -> 32

\* name, lines 170-176
Pbes2Name(self) ==
    CASE self = "Pbes2HS256A128Kw" -> "PBES2-HS256+A128KW"
      [] self = "Pbes2HS384A192Kw" -> "PBES2-HS384+A192KW"
      [] self = "Pbes2HS512A256Kw" -> "PBES2-HS512+A256KW"

\* util/hash_algorithm.rs, output_len, lines 31-38
OutputLen(hash) ==
    CASE hash = "Sha1" -> 20 [] hash = "Sha256" -> 32
      [] hash = "Sha384" -> 48 [] hash = "Sha512" -> 64

Pbes2Ok(value) == [ok |-> TRUE, kind |-> "Ok", value |-> value]
Pbes2Err(kind) == [ok |-> FALSE, kind |-> kind, value |-> <<>>]

RECURSIVE ChecksumTo(_, _)
\* a number that depends on the first n bytes
ChecksumTo(bytes, n) ==
    IF n = 0 THEN 0 ELSE (3 * ChecksumTo(bytes, n - 1) + bytes[n] + 1) % 251
\* a number that depends on every byte
Checksum(bytes) == CHOOSE c \in {ChecksumTo(b, Len(b)) : b \in {bytes}} : TRUE

\* pkcs5::pbkdf2_hmac(pass, salt, iter, md, &mut derived_key)
Pbkdf2(pass, salt, iter, hash, len) ==
    CHOOSE derived_key \in
        {[i \in 1..len |->
            (31 * p + 17 * s + 7 * iter + OutputLen(hash) + 13 * i) % 256] :
            p \in {Checksum(pass)}, s \in {Checksum(salt)}} : TRUE

\* the integrity block of a wrapped key
WrapCheck(kek, key) ==
    CHOOSE block \in
        {[j \in 1..8 |-> (166 + kek[j] + j * c) % 256] :
            c \in {Checksum(key)}} : TRUE

\* the wrap that leaves the key as it is behind the integrity block
WrapKey_Mutant(kek, key) ==
    IF Len(key) % 8 # 0 \/ Len(key) < 16 THEN Pbes2Err("KeyError")
    ELSE Pbes2Ok(WrapCheck(kek, key) \o key)

\* aes::wrap_key(&aes, None, &mut out, &key): an error unless the key is a
\* multiple of 8 bytes, 16 at least; else the integrity block and the
\* enciphered key, 8 bytes more than the key
WrapKey(kek, key) ==
    IF Len(key) % 8 # 0 \/ Len(key) < 16 THEN Pbes2Err("KeyError")
    ELSE Pbes2Ok(WrapCheck(kek, key) \o
            [i \in 1..Len(key) |->
                (key[i] + kek[((i - 1) % Len(kek)) + 1]) % 256])

\* aes::unwrap_key(&aes, None, &mut out, &in_): the assertion
\* out.len() + 8 <= in_.len() panics on a shorter input; an error when the
\* input is no multiple of 8 bytes, is below 24 bytes, or the integrity
\* block does not match; else the key
UnwrapKey(kek, out_len, in_) ==
    IF out_len + 8 > Len(in_) THEN Pbes2Err("panic")
    ELSE IF Len(in_) % 8 # 0 \/ Len(in_) < 24 THEN Pbes2Err("KeyError")
    ELSE LET n == Len(in_) - 8
             key == [i \in 1..n |->
                        (in_[8 + i] + 256 - kek[((i - 1) % Len(kek)) + 1]) % 256]
         IN  IF SubSeq(in_, 1, 8) = WrapCheck(kek, key) THEN Pbes2Ok(key)
             ELSE Pbes2Err("KeyError")

\* JweHeader::claim, JweHeader::set_claim and JweHeader::set_algorithm on
\* the claims of the header
JweClaim(hdr, key) == IF key \in DOMAIN hdr THEN <<hdr[key]>> ELSE <<>>
JweSetClaim(hdr, key, value) == Insert(hdr, key, value)
JweSetAlgorithm(hdr, name) == Insert(hdr, "alg", Str(name))

\* Number::as_u64: the value of a number that is a non-negative integer
AsU64(val) == IF val.s >= 0 THEN <<val.s>> ELSE <<>>

\* the salt written into the header as it is, without the encoding
TakeP2s_Mutant(self, hdr, fresh, generate) ==
    LET c == JweClaim(hdr, "p2s")
    IN  IF c # <<>> /\ c[1].t = "string"
        THEN LET d == Base64Decode(c[1].s)
             IN  IF ~d.ok \/ Len(d.bytes) < 8
                 THEN [err |-> TRUE, p2s |-> <<>>, header |-> hdr]
                 ELSE [err |-> FALSE, p2s |-> d.bytes, header |-> hdr]
        ELSE IF c # <<>> \/ ~generate
        THEN [err |-> TRUE, p2s |-> <<>>, header |-> hdr]
        ELSE [err |-> FALSE, p2s |-> fresh,
              header |-> JweSetClaim(hdr, "p2s", Str(fresh))]

\* lines 251-266 and 366-376: the salt of the header, or made and written
\* into the header (by encrypt only); [err, p2s, header]
TakeP2s(self, hdr, fresh, generate) ==
    LET c == JweClaim(hdr, "p2s")
    IN  IF c # <<>> /\ c[1].t = "string"
        THEN LET d == Base64Decode(c[1].s)
             IN  IF ~d.ok THEN [err |-> TRUE, p2s |-> <<>>, header |-> hdr]
                 ELSE IF Len(d.bytes) < 8
                 THEN [err |-> TRUE, p2s |-> <<>>, header |-> hdr]
                 ELSE [err |-> FALSE, p2s |-> d.bytes, header |-> hdr]
        ELSE IF c # <<>> THEN [err |-> TRUE, p2s |-> <<>>, header |-> hdr]
        ELSE IF ~generate THEN [err |-> TRUE, p2s |-> <<>>, header |-> hdr]
        ELSE [err |-> FALSE, p2s |-> fresh,
              header |-> JweSetClaim(hdr, "p2s", Str(Base64Encode(fresh)))]

\* the count of the header held to the minimum of the configuration
TakeP2c_Mutant(self, hdr, generate) ==
    LET c == JweClaim(hdr, "p2c")
    IN  IF c # <<>> /\ c[1].t = "number"
        THEN IF AsU64(c[1]) # <<>> /\ c[1].s >= 1000
             THEN [err |-> FALSE, p2c |-> AsU64(c[1])[1], header |-> hdr]
             ELSE [err |-> TRUE, p2c |-> 0, header |-> hdr]
        ELSE IF c # <<>> \/ ~generate
        THEN [err |-> TRUE, p2c |-> 0, header |-> hdr]
        ELSE [err |-> FALSE, p2c |-> self.iter_count,
              header |-> JweSetClaim(hdr, "p2c", Num(self.iter_count))]

\* lines 267-278 and 377-384: the count of the header, or the configured
\* one written into the header (by encrypt only); [err, p2c, header]
TakeP2c(self, hdr, generate) ==
    LET c == JweClaim(hdr, "p2c")
    IN  IF c # <<>> /\ c[1].t = "number"
        THEN IF AsU64(c[1]) # <<>>
             THEN [err |-> FALSE, p2c |-> AsU64(c[1])[1], header |-> hdr]
             ELSE [err |-> TRUE, p2c |-> 0, header |-> hdr]
        ELSE IF c # <<>> THEN [err |-> TRUE, p2c |-> 0, header |-> hdr]
        ELSE IF ~generate THEN [err |-> TRUE, p2c |-> 0, header |-> hdr]
        ELSE [err |-> FALSE, p2c |-> self.iter_count,
              header |-> JweSetClaim(hdr, "p2c", Num(self.iter_count))]

\* lines 280-287 and 386-393: the salt input and the derived key
Pbes2Salt(self, p2s) == Utf8(Pbes2Name(self.algorithm)) \o <<0>> \o p2s
DerivedKey(self, p2s, p2c) ==
    Pbkdf2(self.private_key, Pbes2Salt(self, p2s), p2c,
           Pbes2HashAlgorithm(self.algorithm), DerivedKeyLen(self.algorithm))

\* the derivation as the caller can observe it
Derivation(self, p2s, p2c) ==
    [salt |-> Pbes2Salt(self, p2s), iter |-> p2c,
     hash |-> Pbes2HashAlgorithm(self.algorithm),
     len |-> DerivedKeyLen(self.algorithm)]
NoDerivation == [salt |-> <<>>, iter |-> 0, hash |-> "", len |-> 0]

\* Pbes2HmacJweEncrypter::encrypt, lines 245-307: [r, header, derivation]
\* with r the result and header the claims of the header after the call;
\* fresh and key are the bytes util::rand_bytes returns
Pbes2Encrypt(self, hdr, key_len, fresh, key) ==
    LET s == TakeP2s(self, hdr, fresh, TRUE)
        c == TakeP2c(self, s.header, TRUE)
        fail(h) == [r |-> Pbes2Err("InvalidKeyFormat"), header |-> h,
                    derivation |-> NoDerivation]
    IN  IF s.err THEN fail(s.header)
        ELSE IF c.err THEN fail(c.header)
        ELSE LET w == WrapKey(DerivedKey(self, s.p2s, c.p2c), key)
             IN  IF ~w.ok
                 THEN [fail(c.header) EXCEPT
                          !.derivation = Derivation(self, s.p2s, c.p2c)]
                 ELSE [r |-> Pbes2Ok([key |-> key, encrypted_key |-> w.value]),
                       header |-> JweSetAlgorithm(c.header,
                                                  Pbes2Name(self.algorithm)),
                       derivation |-> Derivation(self, s.p2s, c.p2c)]

\* Pbes2HmacJweDecrypter::decrypt, lines 354-411: [r, derivation];
\* encrypted_key is <<>> for None
Pbes2Decrypt(self, hdr, encrypted_key, key_len) ==
    LET s == TakeP2s(self, hdr, <<>>, FALSE)
        c == TakeP2c(self, hdr, FALSE)
        fail == [r |-> Pbes2Err("InvalidJweFormat"), derivation |-> NoDerivation]
    IN  IF encrypted_key = <<>> THEN fail
        ELSE IF s.err THEN fail
        ELSE IF c.err THEN fail
        ELSE LET u == UnwrapKey(DerivedKey(self, s.p2s, c.p2c), key_len,
                                encrypted_key[1])
                 d == Derivation(self, s.p2s, c.p2c)
             IN  IF u.kind = "panic"
                 THEN [r |-> Pbes2Err("panic"), derivation |-> d]
                 ELSE IF ~u.ok
                 THEN [r |-> Pbes2Err("InvalidJweFormat"), derivation |-> d]
                 ELSE [r |-> Pbes2Ok(u.value), derivation |-> d]

\* the encrypter and the decrypter made by the constructors
MakeEncrypter(self, private_key, key_id) ==
    [state |-> "constructed", algorithm |-> self, private_key |-> private_key,
     salt_len |-> 8, iter_count |-> 1000, key_id |-> key_id]
MakeDecrypter(self, private_key, key_id) ==
    [state |-> "constructed", algorithm |-> self, private_key |-> private_key,
     key_id |-> key_id]
Made(is_decrypter, self, private_key, key_id) ==
    Pbes2Ok(IF is_decrypter THEN MakeDecrypter(self, private_key, key_id)
            ELSE MakeEncrypter(self, private_key, key_id))

\* encrypter_from_bytes and decrypter_from_bytes, lines 27-47 and 91-109
Pbes2FromBytes(self, input, is_decrypter) ==
    IF Len(input) = 0 THEN Pbes2Err("InvalidKeyFormat")
    ELSE Made(is_decrypter, self, input, <<>>)

\* encrypter_from_jwk and decrypter_from_jwk, lines 49-89 and 111-150
Pbes2FromJwk(self, jwk, is_decrypter) ==
    LET k == Parameter(jwk, "k")
    IN  IF KeyType(jwk) # "oct" THEN Pbes2Err("InvalidKeyFormat")
        ELSE IF JwkOption(jwk, "use") \notin {<<>>, <<"enc">>}
        THEN Pbes2Err("InvalidKeyFormat")
        ELSE IF ~IsForKeyOperation(jwk, "deriveKey")
        THEN Pbes2Err("InvalidKeyFormat")
        ELSE IF JwkOption(jwk, "alg") \notin {<<>>, <<Pbes2Name(self)>>}
        THEN Pbes2Err("InvalidKeyFormat")
        ELSE IF k.t # "string" THEN Pbes2Err("InvalidKeyFormat")
        ELSE IF ~Base64Decode(k.s).ok THEN Pbes2Err("InvalidKeyFormat")
        ELSE IF Len(Base64Decode(k.s).bytes) = 0
        THEN Pbes2Err("InvalidKeyFormat")
        ELSE Made(is_decrypter, self, Base64Decode(k.s).bytes,
                  JwkOption(jwk, "kid"))

\* set_salt_len without the test of the bound
SetSaltLen_Mutant(self, salt_len) ==
    [r |-> Pbes2Ok(<<>>), self |-> [self EXCEPT !.salt_len = salt_len]]

\* set_salt_len, lines 207-212: [r, self]
SetSaltLen(self, salt_len) ==
    IF salt_len < 8 THEN [r |-> Pbes2Err("panic"), self |-> self]
    ELSE [r |-> Pbes2Ok(<<>>), self |-> [self EXCEPT !.salt_len = salt_len]]

\* set_iter_count, lines 214-219: [r, self]
SetIterCount(self, iter_count) ==
    IF iter_count < 1000 THEN [r |-> Pbes2Err("panic"), self |-> self]
    ELSE [r |-> Pbes2Ok(<<>>), self |-> [self EXCEPT !.iter_count = iter_count]]

\* set_key_id, lines 221-230 and 330-339
Pbes2SetKeyId(self, key_id) == [self EXCEPT !.key_id = key_id]

\* util::rand_bytes(len): some bytes of that length
RandBytes(len) == {Filled(first, len) : first \in {3, 77}}

\* the passwords, and the JWKs handed to the constructors
Passwords == {<<112, 119>>, <<112, 119, 50>>}
OctJwk(kty, use, key_ops, alg, kid, k) ==
    LET all == [x \in {"kty", "use", "key_ops", "alg", "kid", "k"} |->
                    CASE x = "kty" -> kty [] x = "use" -> use
                      [] x = "key_ops" -> key_ops [] x = "alg" -> alg
                      [] x = "kid" -> kid [] x = "k" -> k]
    IN  [x \in {y \in DOMAIN all : all[y] # None} |-> all[x]]
PasswordText == Str(Base64Encode(<<112, 119>>))
OctJwks ==
    {OctJwk(Str("oct"), use, None, None, None, PasswordText) :
        use \in {None, Str("enc"), Str("sig")}}
    \cup {OctJwk(kty, None, key_ops, None, None, PasswordText) :
            kty \in {Str("oct"), Str("RSA")},
            key_ops \in {Arr(<<El("string", "deriveKey")>>),
                         Arr(<<El("string", "sign")>>)}}
    \cup {OctJwk(Str("oct"), None, None, alg, None, k) :
            alg \in {None, Str("PBES2-HS256+A128KW"), Str("PBES2-HS384+A192KW")},
            k \in {PasswordText, None, Num(1), Str(<<97, 43, 98>>), Str(<<>>)}}

\* the headers handed to encrypt: p2s absent, of 8 bytes, of 7 bytes, no
\* base64url, no string; p2c absent, below 1000, negative, no number
P2sValues ==
    {None, Str(Base64Encode(Filled(5, 8))), Str(Base64Encode(Filled(5, 7))),
     Str(<<97, 43, 98>>), Num(8)}
P2cValues == {None, Num(1), Num(999), Num(-1), Str(<<49>>)}
JweHeaderOf(p2s, p2c) ==
    LET all == [x \in {"p2s", "p2c"} |-> IF x = "p2s" THEN p2s ELSE p2c]
    IN  [x \in {y \in DOMAIN all : all[y] # None} |-> all[x]]
JweHeaders == {JweHeaderOf(p2s, p2c) : p2s \in P2sValues, p2c \in P2cValues}
Pbes2KeyLens == {16, 10}

\* the outcome of encrypt, before the call
NoOutcome == [state |-> "none"]

InitPbes2 ==
    /\ header = EmptyMap
    /\ verifier = NoObject
    /\ signer = NoObject
    /\ token = NoOutcome
    /\ payload = <<>>
    /\ claims = Unconstructed
    /\ res = NoCall

\* alg.encrypter_from_bytes(input); the encrypter of a run is made once
EncrypterFromBytes ==
    /\ res = NoCall
    /\ signer = NoObject
    /\ \E self \in Pbes2Algorithms, input \in {<<>>, <<112, 119>>} :
          LET r == Pbes2FromBytes(self, input, FALSE)
          IN  /\ res' = [op |-> "encrypter_from_bytes", self |-> self,
                         input |-> input, r |-> r]
              /\ signer' = IF r.ok THEN r.value ELSE signer
    /\ UNCHANGED <<header, verifier, token, payload, claims>>

\* alg.encrypter_from_jwk(jwk)
EncrypterFromJwk ==
    /\ res = NoCall
    /\ signer = NoObject
    /\ \E self \in Pbes2Algorithms, jwk \in OctJwks :
          LET r == Pbes2FromJwk(self, jwk, FALSE)
          IN  /\ res' = [op |-> "encrypter_from_jwk", self |-> self,
                         input |-> jwk, r |-> r]
              /\ signer' = IF r.ok THEN r.value ELSE signer
    /\ UNCHANGED <<header, verifier, token, payload, claims>>

\* alg.decrypter_from_bytes(input); the decrypter of a run is made once
DecrypterFromBytes ==
    /\ res = NoCall
    /\ verifier = NoObject
    /\ \E self \in Pbes2Algorithms, input \in {<<>>} \cup Passwords :
          LET r == Pbes2FromBytes(self, input, TRUE)
          IN  /\ res' = [op |-> "decrypter_from_bytes", self |-> self,
                         input |-> input, r |-> r]
              /\ verifier' = IF r.ok THEN r.value ELSE verifier
    /\ UNCHANGED <<header, signer, token, payload, claims>>

\* alg.decrypter_from_jwk(jwk)
DecrypterFromJwk ==
    /\ res = NoCall
    /\ verifier = NoObject
    /\ \E self \in Pbes2Algorithms, jwk \in OctJwks :
          LET r == Pbes2FromJwk(self, jwk, TRUE)
          IN  /\ res' = [op |-> "decrypter_from_jwk", self |-> self,
                         input |-> jwk, r |-> r]
              /\ verifier' = IF r.ok THEN r.value ELSE verifier
    /\ UNCHANGED <<header, signer, token, payload, claims>>

\* encrypter.set_salt_len(salt_len); a panic leaves the encrypter as it was
SetSaltLenCall ==
    /\ res = NoCall
    /\ signer # NoObject
    /\ \E salt_len \in {0, 7, 8, 9} :
          LET o == SetSaltLen(signer, salt_len)
          IN  /\ res' = [op |-> "set_salt_len", input |-> salt_len,
                         before |-> signer, r |-> o.r]
              /\ signer' = o.self
    /\ UNCHANGED <<header, verifier, token, payload, claims>>

\* encrypter.set_iter_count(iter_count)
SetIterCountCall ==
    /\ res = NoCall
    /\ signer # NoObject
    /\ \E iter_count \in {0, 999, 1000, 1001} :
          LET o == SetIterCount(signer, iter_count)
          IN  /\ res' = [op |-> "set_iter_count", input |-> iter_count,
                         before |-> signer, r |-> o.r]
              /\ signer' = o.self
    /\ UNCHANGED <<header, verifier, token, payload, claims>>

\* encrypter.set_key_id(key_id)
EncrypterSetKeyId ==
    /\ res = NoCall
    /\ signer # NoObject
    /\ \E key_id \in {<<>>, <<"k1">>} :
          /\ res' = [op |-> "set_key_id", input |-> key_id, before |-> signer,
                     r |-> Pbes2Ok(<<>>)]
          /\ signer' = Pbes2SetKeyId(signer, key_id)
    /\ UNCHANGED <<header, verifier, token, payload, claims>>

\* encrypter.encrypt(&mut header, key_len) on a header of the caller; the
\* header after the call and the outcome are kept.  encrypt takes &self
\* and the header of each call is the caller's: one call per run
EncryptCall ==
    /\ res = NoCall
    /\ signer # NoObject
    /\ token = NoOutcome
    /\ \E hdr \in JweHeaders, key_len \in Pbes2KeyLens :
       \E fresh \in RandBytes(signer.salt_len), key \in RandBytes(key_len) :
          LET o == Pbes2Encrypt(signer, hdr, key_len, fresh, key)
          IN  /\ res' = [op |-> "encrypt", before |-> hdr, key_len |-> key_len,
                         fresh |-> fresh, derivation |-> o.derivation,
                         r |-> o.r]
              /\ header' = o.header
              /\ token' = [state |-> "called", before |-> hdr,
                           key_len |-> key_len,
                           derivation |-> o.derivation, r |-> o.r]
    /\ UNCHANGED <<verifier, signer, payload, claims>>

\* the encrypted keys handed to decrypt: none, the one encrypt returned,
\* that one with a byte changed, that one without its last 8 bytes, and 8
\* bytes that are no wrapped key
EncryptedKeys ==
    {<<>>, <<Filled(9, 8)>>}
        \cup (IF token # NoOutcome /\ token.r.ok
              THEN LET ek == token.r.value.encrypted_key
                   IN  {<<ek>>,
                        <<[ek EXCEPT ![Len(ek)] = (ek[Len(ek)] + 1) % 256]>>,
                        <<SubSeq(ek, 1, Len(ek) - 8)>>}
              ELSE {})

\* the headers handed to decrypt: the header as encrypt left it, and that
\* header without p2s, without p2c, with a negative p2c
DecryptHeaders ==
    {header, Remove(header, "p2s"), Remove(header, "p2c"),
     Insert(header, "p2c", Num(-1))}

\* decrypter.decrypt(&header, encrypted_key, key_len) with the key_len of
\* the encrypt call
DecryptCall ==
    /\ res = NoCall
    /\ verifier # NoObject
    /\ token # NoOutcome
    /\ \E hdr \in DecryptHeaders, encrypted_key \in EncryptedKeys :
          LET o == Pbes2Decrypt(verifier, hdr, encrypted_key, token.key_len)
          IN  res' = [op |-> "decrypt", header |-> hdr,
                      encrypted_key |-> encrypted_key,
                      key_len |-> token.key_len,
                      derivation |-> o.derivation, r |-> o.r]
    /\ UNCHANGED <<header, verifier, signer, token, payload, claims>>

\* an encrypter and a decrypter: constructed, the encrypter configured,
\* one encrypt, decrypt
NextPbes2 ==
    \/ EncrypterFromBytes
    \/ EncrypterFromJwk
    \/ DecrypterFromBytes
    \/ DecrypterFromJwk
    \/ SetSaltLenCall
    \/ SetIterCountCall
    \/ EncryptCall
    \/ DecryptCall
    \/ Return

SpecPbes2 == InitPbes2 /\ [][NextPbes2]_vars

\* the encrypter alone: constructed, then every setter and encrypt
NextPbes2Config ==
    \/ EncrypterFromBytes
    \/ EncrypterFromJwk
    \/ SetSaltLenCall
    \/ SetIterCountCall
    \/ EncrypterSetKeyId
    \/ EncryptCall
    \/ Return

SpecPbes2Config == InitPbes2 /\ [][NextPbes2Config]_vars

(***************************************************************************)
(* Properties                                                              *)
(***************************************************************************)
\* the number of '.' characters of a string
DotCount(input) == Cardinality({i \in 1..Len(input) : input[i] = 46})

\* the header's alg claim is a string equal to the verifier's algorithm name
HeaderAlgOk == Get(header, "alg") = Str(Name(verifier.algorithm))

\* the verifier's key-id and the header's kid are both absent, or both
\* present with kid a string equal to the key-id
HeaderKidOk ==
    \/ verifier.key_id = NoKeyId /\ "kid" \notin DOMAIN header
    \/ /\ verifier.key_id # NoKeyId
       /\ "kid" \in DOMAIN header
       /\ header["kid"] = Str(verifier.key_id[1])

\* the header has b64 = false
HeaderB64False == "b64" \in DOMAIN header /\ header["b64"] = Bool(FALSE)

\* the crit claim is an array that lists the name
CritLists(map, name) ==
    /\ "crit" \in DOMAIN map
    /\ map["crit"].t = "array"
    /\ \E i \in 1..Len(map["crit"].a) : map["crit"].a[i] = El("string", name)

\* input is tk with exactly one bit of its signature segment flipped
IsSignatureBitFlip(tk, input) ==
    /\ DotCount(tk) = 2
    /\ Len(input) = Len(tk)
    /\ \E p \in 1..Len(tk), k \in 0..6 :
          /\ \A i \in p..Len(tk) : tk[i] # 46
          /\ input = [tk EXCEPT ![p] = FlipBit(tk[p], k)]

\* C1: verify returns success only when the primitive reports the signature
\* valid; when the primitive reports a mismatch or the signature is
\* malformed, verify returns InvalidSignature.
C1_VerifyFollowsPrimitive ==
    res.op = "verify" =>
        /\ res.r.ok => res.r.prim = "valid"
        /\ res.r.prim \in {"mismatch", "error"} =>
              ~res.r.ok /\ res.r.kind = "InvalidSignature"

\* C2: deserialize_compact of a token of serialize_compact with one bit of
\* its signature segment flipped (same header, verifier for the matching
\* key) fails: it never succeeds.
C2_TamperedSignatureRejected ==
    ( /\ res.op = "deserialize"
      /\ token # NoToken
      /\ IsSignatureBitFlip(token, res.input) )
        => ~res.r.ok

\* C3: deserialize_compact fails with InvalidJwtFormat, at the count of the
\* segments and with no payload, for every input whose number of '.' is not
\* exactly two.
C3_SegmentCountRejected ==
    (res.op = "deserialize" /\ DotCount(res.input) # 2) =>
        /\ ~res.r.ok
        /\ res.r.kind = "InvalidJwtFormat"
        /\ res.r.value = <<>>
        /\ res.r.trace = <<"segments">>

C3_Witness ==
    /\ res.op = "deserialize"
    /\ DotCount(res.input) = 3
    /\ HeaderAlgOk /\ HeaderKidOk
    /\ res.r.kind = "InvalidJwtFormat"

\* C4: deserialize_compact fails with InvalidJwtFormat whenever the header's
\* alg is absent, not a string, or differs from the verifier's algorithm
\* name; it returns a payload only when alg equals that name.
C4_AlgRequired ==
    res.op = "deserialize" =>
        /\ ~HeaderAlgOk => ~res.r.ok /\ res.r.kind = "InvalidJwtFormat"
        /\ res.r.ok => HeaderAlgOk

C4_Witness ==
    /\ res.op = "deserialize"
    /\ token # NoToken /\ res.input = token
    /\ "alg" \notin DOMAIN header
    /\ HeaderKidOk
    /\ res.r.kind = "InvalidJwtFormat"

\* C5: deserialize_compact passes the kid check only when the verifier's
\* key-id and the header's kid are both absent or both present and equal;
\* otherwise it fails with InvalidJwtFormat.
C5_KidAgreement ==
    res.op = "deserialize" =>
        /\ ~HeaderKidOk => ~res.r.ok /\ res.r.kind = "InvalidJwtFormat"
        /\ Len(res.r.trace) > 3 => HeaderKidOk

C5_Witness ==
    /\ res.op = "deserialize"
    /\ token # NoToken /\ res.input = token
    /\ HeaderAlgOk
    /\ verifier.key_id = SomeKeyId("k1")
    /\ "kid" \notin DOMAIN header
    /\ res.r.trace = <<"segments", "alg", "kid">>
    /\ res.r.kind = "InvalidJwtFormat"

\* the order of the steps of deserialize_compact
CheckOrder ==
    <<"segments", "alg", "kid", "b64", "payload", "signature", "verify">>

\* the first check of deserialize_compact that the call's arguments fail
FirstFailure(input) ==
    IF DotCount(input) # 2 THEN "segments"
    ELSE IF ~HeaderAlgOk THEN "alg"
    ELSE IF ~HeaderKidOk THEN "kid"
    ELSE IF HeaderB64False /\ Get(header, "crit").t = "array"
            /\ ~CritLists(header, "b64") THEN "b64"
    ELSE IF ~(HeaderB64False /\ CritLists(header, "b64"))
            /\ ~Base64Decode(Segments(input)[2]).ok THEN "payload"
    ELSE IF ~Base64Decode(Segments(input)[3]).ok THEN "signature"
    ELSE "none"

\* C6: the checks of deserialize_compact run in the order segment count,
\* alg, kid, b64/crit, decoding of payload and signature; verify is invoked
\* at most once and only after all of them succeeded.
C6_ChecksBeforeVerify ==
    res.op = "deserialize" =>
        LET trace == res.r.trace
            first == FirstFailure(res.input)
        IN  /\ Len(trace) >= 1
            /\ trace = SubSeq(CheckOrder, 1, Len(trace))
            /\ res.r.verifyCalls
                  = Cardinality({i \in 1..Len(trace) : trace[i] = "verify"})
            /\ first # "none" =>
                  res.r.verifyCalls = 0 /\ trace[Len(trace)] = first
            /\ first = "none" =>
                  res.r.verifyCalls = 1 /\ trace[Len(trace)] = "verify"

C6_Witness ==
    /\ res.op = "deserialize"
    /\ token # NoToken /\ res.input = token
    /\ ~HeaderAlgOk /\ ~HeaderKidOk
    /\ res.r.trace = <<"segments", "alg">>
    /\ res.r.verifyCalls = 0

\* C7: a failure of deserialize_compact before verify is invoked is reported
\* as InvalidJwtFormat, a failure of verify as InvalidSignature, and no
\* other error kind is returned.
C7_ErrorKinds ==
    (res.op = "deserialize" /\ ~res.r.ok) =>
        /\ res.r.verifyCalls = 0 => res.r.kind = "InvalidJwtFormat"
        /\ res.r.verifyCalls = 1 => res.r.kind = "InvalidSignature"

C7_Witness ==
    /\ res.op = "deserialize"
    /\ ~res.r.ok
    /\ res.r.verifyCalls = 1
    /\ res.r.kind = "InvalidSignature"

\* the claim names a verifier of deserialize_compact understands
Understood == {"b64"}

\* C8: when the header's crit lists a claim name the verifier does not
\* understand, deserialize_compact (here: of the token serialize_compact
\* returned for that header) fails and returns no payload.
C8_CritFailsClosed ==
    ( /\ res.op = "deserialize"
      /\ token # NoToken /\ res.input = token
      /\ \E name \in {"exp"} \ Understood : CritLists(header, name) )
        => ~res.r.ok /\ res.r.value = <<>>

\* C9: from_map and from_bytes reject every claims map in which b64 is false
\* and "b64" is not listed in crit, the absence of crit included.
C9_ConstructionRejectsB64 ==
    ( /\ res.op \in {"from_map", "from_bytes"}
      /\ LET map == IF res.op = "from_map" THEN res.input
                    ELSE ParseJson(res.input).map
         IN  Get(map, "b64") = Bool(FALSE) /\ ~CritLists(map, "b64") )
        => ~res.r.ok

\* C10: serialize_compact and deserialize_compact (here: of the token
\* serialize_compact returned) fail when the header has b64 = false and
\* "b64" is not listed in crit, the absence of crit included.
C10_UseRejectsB64 ==
    ( /\ \/ res.op = "serialize"
         \/ res.op = "deserialize" /\ token # NoToken /\ res.input = token
      /\ HeaderB64False
      /\ ~CritLists(header, "b64") )
        => ~res.r.ok

\* a header object exists
Constructed == claims # Unconstructed

\* C11: in every state of a constructed header, b64 = false implies that
\* crit is present and lists "b64".
C11_B64ImpliesCrit ==
    (Constructed /\ Get(claims, "b64") = Bool(FALSE)) => CritLists(claims, "b64")

\* the characters of a base64url string without padding
IsB64UrlText(str) ==
    \A i \in 1..Len(Utf8(str)) :
       LET c == Utf8(str)[i]
       IN  \/ c \in 65..90 \/ c \in 97..122 \/ c \in 48..57 \/ c \in {45, 95}

\* the type table of the known header claims
TypeTableOk(key, value) ==
    CASE key \in {"alg", "jku", "x5u", "kid", "typ", "cty", "url"} ->
            value.t = "string"
      [] key = "crit" ->
            value.t = "array" /\ \A i \in 1..Len(value.a) : value.a[i].t = "string"
      [] key \in {"x5t", "x5t#S256", "nonce"} ->
            value.t = "string" /\ IsB64UrlText(value.s)
      [] key = "x5c" ->
            /\ value.t = "array"
            /\ \A i \in 1..Len(value.a) :
                  value.a[i].t = "string" /\ IsB64UrlText(value.a[i].s)
      [] key = "jwk" -> value.t = "object"
      [] OTHER -> TRUE

\* C12: in every state of a constructed header, each known claim that is
\* present has the type the table gives it.
C12_TypeTable ==
    Constructed => \A key \in DOMAIN claims : TypeTableOk(key, claims[key])

\* a header that went through typed setters and set_claim holds claims of
\* every row of the table
C12_Witness ==
    /\ Constructed
    /\ {"alg", "crit", "x5t", "x5c", "jwk"} \subseteq DOMAIN claims
    /\ claims["x5t"] = Str("-w")
    /\ res.op = "set_claim" /\ ~res.r.ok

\* the known claims of a map that violate the type table
BadClaims(map) == {key \in DOMAIN map : ~TypeTableOk(key, map[key])}

\* C13: from_map fails, naming an offending claim and producing no header,
\* when a known claim violates its type; a map whose known claims are well
\* typed (and whose b64 is not false) is accepted whatever JSON value an
\* unrecognized name holds.
C13_FromMapValidates ==
    res.op = "from_map" =>
        /\ BadClaims(res.input) # {} =>
              /\ ~res.r.ok
              /\ res.r.claim \in BadClaims(res.input)
              /\ claims = Unconstructed
        /\ (BadClaims(res.input) = {} /\ Get(res.input, "b64") # Bool(FALSE)) =>
              res.r.ok /\ claims = res.input

\* from_map rejected a map with two ill-typed claims
C13_Witness ==
    /\ res.op = "from_map"
    /\ Cardinality(BadClaims(res.input)) = 2
    /\ ~res.r.ok

\* C14: set_claim(name, Some(value)) with an ill-typed value for a known
\* claim fails and leaves the claims as they were; with a well-typed value
\* it succeeds and sets only that claim; set_claim(name, None) succeeds and
\* removes only that claim.
C14_SetClaimFrame ==
    res.op = "set_claim" =>
        LET key == res.input[1]
            value == res.input[2]
            others == DOMAIN res.before \ {key}
            kept == \A k \in others : k \in DOMAIN claims /\ claims[k] = res.before[k]
        IN  IF value = <<>>
            THEN res.r.ok /\ kept /\ DOMAIN claims = others
            ELSE IF ~TypeTableOk(key, value[1])
            THEN ~res.r.ok /\ claims = res.before
            ELSE /\ res.r.ok /\ kept
                 /\ DOMAIN claims = others \cup {key}
                 /\ claims[key] = value[1]

\* set_claim refused an ill-typed crit on a header that held other claims
C14_Witness ==
    /\ res.op = "set_claim"
    /\ res.input[1] = "crit" /\ res.input[2] = <<Str("b64")>>
    /\ ~res.r.ok
    /\ Cardinality(DOMAIN res.before) >= 2
    /\ "crit" \in DOMAIN res.before

\* the header passes the alg and kid checks of the verifier
HeaderAccepted == HeaderAlgOk /\ HeaderKidOk

\* the signing input and the token of the compact form, for a middle segment
SigningInput(hdr, middle) == Base64Encode(ToJsonString(hdr)) \o <<46>> \o middle
CompactToken(hdr, middle) ==
    SigningInput(hdr, middle) \o <<46>>
        \o Base64Encode(PrimSign(signer.key, signer.algorithm,
                                 SigningInput(hdr, middle)))

\* C15: with b64 absent or true, serialize_compact returns
\* base64url(header JSON) "." base64url(payload) "." base64url(signature),
\* having signed the first two segments; when alg and kid agree with the
\* verifier, deserialize_compact of that token returns exactly the payload
\* and hands verify the bytes sign received.
C15_CompactRoundTrip ==
    ~HeaderB64False =>
        /\ res.op = "serialize" =>
              /\ res.r.ok
              /\ res.r.signCalls = 1
              /\ res.r.message = SigningInput(header, Base64Encode(res.input))
              /\ res.r.value = CompactToken(header, Base64Encode(res.input))
        /\ (res.op = "deserialize" /\ token # NoToken /\ res.input = token
                /\ HeaderAccepted) =>
              /\ res.r.ok
              /\ res.r.value = payload
              /\ res.r.verifyCalls = 1
              /\ res.r.message = SigningInput(header, Base64Encode(payload))
              /\ res.r.prim = "valid"

\* a token of a payload that is not text and encodes with '_' came back
C15_Witness ==
    /\ res.op = "deserialize" /\ token # NoToken /\ res.input = token
    /\ ~HeaderB64False /\ HeaderAccepted
    /\ verifier.key_id # NoKeyId
    /\ payload = <<255>>
    /\ res.r.value = <<255>>

\* text without a '.'
IsDotFreeText(bytes) ==
    /\ \A i \in 1..Len(bytes) : bytes[i] < 128
    /\ \A i \in 1..Len(bytes) : bytes[i] # 46

C17_UnencodedPayloadRejected ==
    (res.op = "serialize" /\ HeaderB64False /\ CritLists(header, "b64")
        /\ ~IsDotFreeText(res.input)) =>
        /\ ~res.r.ok
        /\ res.r.kind = "InvalidJwtFormat"
        /\ res.r.signCalls = 0
        /\ res.r.value = <<>>

\* a payload that is not text was refused after another had been serialized
C17_Witness ==
    /\ res.op = "serialize" /\ HeaderB64False /\ CritLists(header, "b64")
    /\ res.input = <<255>>
    /\ ~res.r.ok
    /\ token # NoToken

\* the constructors of signers and verifiers
JwkConstructors == {"signer_from_jwk", "verifier_from_jwk"}
DerConstructors == {"signer_from_der", "verifier_from_der"}
PemConstructors == {"signer_from_pem", "verifier_from_pem"}
Constructors == JwkConstructors \cup DerConstructors \cup PemConstructors

\* a member of the JWK is a string that decodes as base64url
IsEncodedInteger(jwk, name) ==
    /\ name \in DOMAIN jwk
    /\ jwk[name].t = "string"
    /\ Base64Decode(jwk[name].s).ok

\* the JWK breaks one of the rules of acceptance for the operation
JwkOffending(jwk, self, operation, required) ==
    \/ jwk["kty"] # Str("RSA")
    \/ "use" \in DOMAIN jwk /\ jwk["use"] # Str("sig")
    \/ /\ "key_ops" \in DOMAIN jwk
       /\ \A i \in 1..Len(jwk["key_ops"].a) :
             jwk["key_ops"].a[i] # El("string", operation)
    \/ "alg" \in DOMAIN jwk /\ jwk["alg"] # Str(self)
    \/ \E name \in required : ~IsEncodedInteger(jwk, name)

\* C18: signer_from_jwk and verifier_from_jwk return InvalidKeyFormat, and
\* make no signer or verifier, when the JWK has a kty other than RSA, a use
\* other than sig, key_ops without the operation, an alg other than the
\* algorithm's name, or a required parameter that is missing, no string or
\* not base64url.
C18_JwkRejected ==
    res.op \in JwkConstructors =>
        LET signing == res.op = "signer_from_jwk"
            offending ==
                JwkOffending(res.input, res.self,
                             IF signing THEN "sign" ELSE "verify",
                             IF signing
                             THEN {"n", "e", "d", "p", "q", "dp", "dq", "qi"}
                             ELSE {"n", "e"})
        IN  offending =>
               /\ ~res.r.ok
               /\ res.r.kind = "InvalidKeyFormat"
               /\ res.r.made = NoObject

\* signer_from_jwk refused a JWK whose only fault is a qi that is text but
\* not base64url
C18_Witness ==
    /\ res.op = "signer_from_jwk"
    /\ ~res.r.ok
    /\ Get(res.input, "qi") = Str(<<65>>)
    /\ \A name \in {"n", "e", "d", "p", "q", "dp", "dq"} :
          IsEncodedInteger(res.input, name)
    /\ Get(res.input, "kty") = Str("RSA")
    /\ DOMAIN res.input \cap {"use", "key_ops", "alg"} = {}

\* the number of bits of the modulus of the key handed to a constructor
\* that takes DER or PEM
InputBits == IF res.op \in DerConstructors THEN res.input.bits
             ELSE res.input.data.bits

\* C19: every signer and verifier made by a constructor holds an RSA key
\* with a modulus of at least 2048 bits, and a key with a smaller modulus
\* is refused with InvalidKeyFormat.
C19_KeySizeFloor ==
    /\ signer # NoObject => signer.key.bits >= 2048
    /\ verifier # NoObject => verifier.key.bits >= 2048
    /\ res.op \in Constructors =>
          IF res.r.ok THEN res.r.made.key.bits >= 2048
          ELSE res.r.kind = "InvalidKeyFormat"
    /\ (res.op \in DerConstructors \cup PemConstructors /\ InputBits < 2048) =>
          ~res.r.ok

\* the labels a constructor from PEM takes: the one of the enveloped form
\* and the one of the PKCS#1 form
PemLabelsOf(op) ==
    IF op = "signer_from_pem" THEN <<"PRIVATE KEY", "RSA PRIVATE KEY">>
    ELSE <<"PUBLIC KEY", "RSA PUBLIC KEY">>

\* C20: signer_from_pem takes only the labels "PRIVATE KEY" (the content is
\* parsed as it is) and "RSA PRIVATE KEY" (the content is parsed inside a
\* PKCS#8 envelope), verifier_from_pem only "PUBLIC KEY" and
\* "RSA PUBLIC KEY" (inside an SPKI envelope); every other label fails with
\* InvalidKeyFormat.
C20_PemLabels ==
    (res.op \in PemConstructors /\ res.input.framed) =>
        LET labels == PemLabelsOf(res.op)
            envelope == IF res.op = "signer_from_pem" THEN "pkcs8" ELSE "spki"
            data == res.input.data
        IN  /\ res.input.label \notin {labels[1], labels[2]} =>
                  ~res.r.ok /\ res.r.kind = "InvalidKeyFormat"
            /\ (res.r.ok /\ res.input.label = labels[1]) =>
                  res.r.parsed = data /\ data.env = <<envelope>>
            /\ (res.r.ok /\ res.input.label = labels[2]) =>
                  /\ data.env = <<>>
                  /\ res.r.parsed = Der(<<envelope>>, data.body, data.bits)

\* verifier_from_pem made a verifier from a PKCS#1 public key, after
\* signer_from_pem had made a signer from a PKCS#8 private key
C20_Witness ==
    /\ res.op = "verifier_from_pem"
    /\ res.input.label = "RSA PUBLIC KEY"
    /\ res.r.ok
    /\ verifier = res.r.made
    /\ signer # NoObject

\* C30: every validation failure of from_map and set_claim, of a claim's
\* type or of the b64 / crit rule, carries the kind InvalidJwsFormat.
C30_HeaderErrorKind ==
    (res.op \in {"from_map", "set_claim"} /\ ~res.r.ok) =>
        res.r.kind = "InvalidJwsFormat"

\* the constructors that take the forms of a key
FormConstructors ==
    {ConstructorOf(form, is_public) : form \in KeyForms, is_public \in BOOLEAN}

C22_AeskwRoundTrip ==
    (/\ res.op = "decrypt_aeskw" /\ token # NoBlock
     /\ res.data = token.data /\ res.pk = token.pk
     /\ res.key_length = token.key_length) =>
        /\ token.key_length \in {16, 24, 32}
        /\ Len(token.pk) = token.key_length
        /\ Len(payload) = 16
        /\ res.r.ok /\ res.r.value = payload
C22_Witness ==
    /\ res.op = "decrypt_aeskw" /\ token # NoBlock
    /\ res.data = token.data /\ res.pk = token.pk
    /\ res.key_length = 32 /\ token.key_length = 32
    /\ res.r.ok /\ res.r.value = payload /\ payload # token.data

\* C23: a call with data of another length than 16 bytes, with a key
\* length other than 16, 24 and 32, or with a key slice of another length
\* than key_length returns the Generic error
C23_AeskwRejects ==
    (/\ res.op \in {"encrypt_aeskw", "decrypt_aeskw"}
     /\ \/ Len(res.data) # 16
        \/ res.key_length \notin {16, 24, 32}
        \/ Len(res.pk) # res.key_length) =>
        ~res.r.ok /\ res.r.kind = "Generic"

\* C27: a constructed encrypter has salt_len >= 8 and iter_count >= 1000;
\* set_salt_len and set_iter_count with a value below the bound are
\* rejected and leave the encrypter as it was
C27_ConfigBounds ==
    /\ signer # NoObject => signer.salt_len >= 8 /\ signer.iter_count >= 1000
    /\ (res.op = "set_salt_len" /\ res.input < 8) =>
          ~res.r.ok /\ signer = res.before
    /\ (res.op = "set_iter_count" /\ res.input < 1000) =>
          ~res.r.ok /\ signer = res.before
C27_Witness ==
    /\ res.op = "set_salt_len" /\ res.input = 7 /\ ~res.r.ok
    /\ signer.salt_len = 9 /\ signer.iter_count = 1001
    /\ token # NoOutcome

\* the decrypter is built from the key and the variant of the encrypter
SameKeyAndVariant ==
    /\ signer # NoObject /\ verifier # NoObject
    /\ verifier.algorithm = signer.algorithm
    /\ verifier.private_key = signer.private_key

\* decrypt is called on the header encrypt left and the key it wrapped
DecryptOfEncrypted ==
    /\ res.op = "decrypt" /\ token # NoOutcome /\ token.r.ok
    /\ res.header = header
    /\ res.encrypted_key = <<token.r.value.encrypted_key>>
    /\ res.key_len = token.key_len

\* C24: decrypt, by a decrypter of the same key and variant, on the header
\* and the wrapped key of a successful encrypt returns the generated key;
\* both sides derive from UTF8(name) || 0x00 || p2s with the count p2c and
\* the width 16, 24, 32 of the variant
C24_Pbes2RoundTrip ==
    (DecryptOfEncrypted /\ SameKeyAndVariant) =>
        /\ res.r.ok /\ res.r.value = token.r.value.key
        /\ res.derivation = token.derivation
        /\ res.derivation.salt =
              Utf8(Pbes2Name(verifier.algorithm)) \o <<0>>
                  \o Base64Decode(Get(header, "p2s").s).bytes
        /\ res.derivation.iter = Get(header, "p2c").s
        /\ res.derivation.len =
              (CASE verifier.algorithm = "Pbes2HS256A128Kw" -> 16
                 [] verifier.algorithm = "Pbes2HS384A192Kw" -> 24
                 [] verifier.algorithm = "Pbes2HS512A256Kw" -> 32)
        /\ res.derivation.hash =
              (CASE verifier.algorithm = "Pbes2HS256A128Kw" -> "Sha256"
                 [] verifier.algorithm = "Pbes2HS384A192Kw" -> "Sha384"
                 [] verifier.algorithm = "Pbes2HS512A256Kw" -> "Sha512")
C24_Witness ==
    /\ DecryptOfEncrypted /\ SameKeyAndVariant
    /\ verifier.algorithm = "Pbes2HS512A256Kw"
    /\ res.r.ok /\ res.r.value = token.r.value.key
    /\ res.r.value = Filled(77, 16)

\* C25: after a successful encrypt on a header without p2s and p2c, p2s is
\* the base64url text of the generated salt of salt_len bytes, p2c is the
\* configured iter_count and alg is the name of the variant; decrypt
\* accepts that header
C25_HeaderGains ==
    /\ (/\ res.op = "encrypt" /\ res.r.ok
        /\ "p2s" \notin DOMAIN res.before /\ "p2c" \notin DOMAIN res.before) =>
          /\ DOMAIN header = DOMAIN res.before \cup {"p2s", "p2c", "alg"}
          /\ Len(res.fresh) = signer.salt_len /\ Len(res.fresh) >= 8
          /\ header["p2s"].t = "string"
          /\ \A i \in 1..Len(header["p2s"].s) :
                header["p2s"].s[i] \in
                    (65..90) \cup (97..122) \cup (48..57) \cup {45, 95}
          /\ Base64Decode(header["p2s"].s) = [ok |-> TRUE, bytes |-> res.fresh]
          /\ header["p2c"] = Num(signer.iter_count)
          /\ ValueEqStr(header["alg"], Pbes2Name(signer.algorithm))
    /\ (/\ DecryptOfEncrypted
        /\ "p2s" \notin DOMAIN token.before /\ "p2c" \notin DOMAIN token.before) =>
          /\ res.derivation # NoDerivation
          /\ SameKeyAndVariant => res.r.ok
C25_Witness ==
    /\ DecryptOfEncrypted /\ SameKeyAndVariant /\ res.r.ok
    /\ token.before = EmptyMap
    /\ Get(header, "p2c") = Num(1001)
    /\ Len(Base64Decode(Get(header, "p2s").s).bytes) = 9

\* p2s is a string that decodes as base64url to 8 bytes at least
P2sWellFormed(hdr) ==
    /\ Get(hdr, "p2s").t = "string"
    /\ Base64Decode(Get(hdr, "p2s").s).ok
    /\ Len(Base64Decode(Get(hdr, "p2s").s).bytes) >= 8
\* p2c is a non-negative integer
P2cWellFormed(hdr) == Get(hdr, "p2c").t = "number" /\ Get(hdr, "p2c").s >= 0

\* C26: decrypt fails with InvalidJweFormat when the encrypted key is
\* absent, p2s or p2c is absent or malformed; every decrypt that returns no
\* key (a failed unwrap, a malformed ciphertext) fails with InvalidJweFormat
C26_DecryptRejects ==
    /\ (/\ res.op = "decrypt"
        /\ \/ res.encrypted_key = <<>>
           \/ ~P2sWellFormed(res.header)
           \/ ~P2cWellFormed(res.header)) =>
          ~res.r.ok /\ res.r.kind = "InvalidJweFormat"
    /\ (res.op = "decrypt" /\ ~res.r.ok) => res.r.kind = "InvalidJweFormat"

\* C28: encrypt derives from the p2s and the p2c the header carries and
\* leaves them as they are, writing only the absent ones; a header p2c
\* below 1000 is accepted by encrypt and by decrypt
C28_HeaderParametersHonoured ==
    /\ (res.op = "encrypt" /\ res.r.ok) =>
          /\ DOMAIN header = DOMAIN res.before \cup {"p2s", "p2c", "alg"}
          /\ "p2s" \in DOMAIN res.before =>
                /\ header["p2s"] = res.before["p2s"]
                /\ res.derivation.salt =
                      Utf8(Pbes2Name(signer.algorithm)) \o <<0>>
                          \o Base64Decode(res.before["p2s"].s).bytes
          /\ "p2c" \in DOMAIN res.before =>
                /\ header["p2c"] = res.before["p2c"]
                /\ res.derivation.iter = res.before["p2c"].s
    /\ (/\ res.op = "encrypt"
        /\ P2cWellFormed(res.before) /\ res.before["p2c"].s < 1000
        /\ "p2s" \in DOMAIN res.before => P2sWellFormed(res.before)) =>
          /\ res.derivation # NoDerivation
          /\ res.key_len = 16 => res.r.ok
    /\ (/\ DecryptOfEncrypted
        /\ P2cWellFormed(header) /\ header["p2c"].s < 1000) =>
          /\ res.derivation # NoDerivation
          /\ SameKeyAndVariant => res.r.ok
C28_Witness ==
    /\ DecryptOfEncrypted /\ SameKeyAndVariant /\ res.r.ok
    /\ DOMAIN token.before = {"p2s", "p2c"}
    /\ header["p2c"] = Num(999) /\ signer.iter_count = 1001
    /\ header["p2s"] = token.before["p2s"]

\* C29: an encrypt that returns an error leaves the claims of the header
\* as they were before the call
C29_FailedEncryptFrame ==
    (res.op = "encrypt" /\ ~res.r.ok) => header = res.before

====
